---------------------------- MODULE Spec2Model ----------------------------
(***************************************************************************)
(* Context cache and aggregation pipeline of the MCP server.               *)
(*                                                                         *)
(* Two implementations of the context resource exist in the source:       *)
(*   "tools"     mcp-server/src/tools/projectStructure.ts  (sha256,       *)
(*               lookup by supplied hash, eviction deletes in place)      *)
(*   "resources" mcp-server/src/resources/index.ts         (md5, no       *)
(*               lookup by supplied hash, eviction rebuilds the map)      *)
(* The variable impl fixes which of the two a behaviour runs.             *)
(*                                                                         *)
(* A JavaScript Map keeps insertion order, and Array.prototype.sort is    *)
(* stable, so the cache is a sequence of entries in insertion order.      *)
(* Each entry carries the identity (obj) of the payload object it holds:  *)
(* the entry and the local variable `context` of the request that stored  *)
(* it are the same JavaScript object.                                      *)
(***************************************************************************)
EXTENDS Integers, Sequences, FiniteSets, TLC

\* ------------------------------------------------------------------ bounds
\* concurrent context requests (one per slot, a slot serves one request)
NumSlots == 2
\* number of times the clock is advanced in a behaviour
MaxTicks == 1

\* --------------------------------------------------------- program constants
\* const CACHE_TTL = 5 * 60 * 1000
CACHE_TTL == 5 * 60 * 1000
\* if (contextCache.size > 50) / slice(0, 50) / for (let i = 50; ...
CacheCapacity == 50

\* ------------------------------------------------------------- input values
\* url.searchParams.get('path') is null or '' : both are falsy
NoPath == 0
\* url.searchParams.get('task') is null or '' : `taskDescription || undefined`
NoTask == 0
\* no hash segment in the URI: `url.pathname.replace(/^\/+/, '') || undefined`
NoHash == <<>>

\* the project path of the i-th entry already in the cache at the start
WarmPath(i) == 100 + i

Slots == 1 .. NumSlots
Impls == {"tools", "resources"}

\* ------------------------------------------------------------ payload values
Absent == <<>>
Null == <<"null">>
Tree(p) == <<"structure", p>>
GitInfo(p) == <<"git", p>>
Files(p, t) == <<"relevantFiles", p, t>>
StructureFailure == <<"Error: Failed to get project structure">>
FilesFailure == <<"Error: smart file selection failed">>

\* mutant: the project path is left out of what is hashed
JsonStringifyTaskOnly(p, t) ==
  IF t = NoTask THEN <<"params">> ELSE <<"taskDescription", t>>

\* JSON.stringify({ projectPath, taskDescription }): a property whose value is
\* undefined is left out of the serialisation
JsonStringify(p, t) ==
  IF t = NoTask THEN <<"projectPath", p>>
  ELSE <<"projectPath", p, "taskDescription", t>>

\* crypto.createHash(alg).update(s).digest('hex'), taken as collision free
Digest(alg, s) == <<alg>> \o s

generateContextHash(im, p, t) ==
  Digest(IF im = "tools" THEN "sha256" ELSE "md5", JsonStringify(p, t))

\* const context = { generated, projectPath, hash }
NewContext(t, p, h) ==
  [generated |-> t, projectPath |-> p, hash |-> h,
   structure |-> Absent, structureError |-> Absent, git |-> Absent,
   relevantFiles |-> Absent, filesError |-> Absent,
   previousHash |-> Absent, cached |-> FALSE]

\* ------------------------------------------------------------------- the Map
Keys(c) == {c[i].key : i \in 1 .. Len(c)}

\* contextCache.get(key): the index of the entry, 0 when there is none
MapIndex(c, k) ==
  IF \E i \in 1 .. Len(c) : c[i].key = k
  THEN CHOOSE i \in 1 .. Len(c) : c[i].key = k
  ELSE 0

\* mutant: the comparison admits an entry aged exactly CACHE_TTL
IsFreshInclusive(c, k, t) ==
  /\ MapIndex(c, k) # 0
  /\ t - c[MapIndex(c, k)].timestamp <= CACHE_TTL

\* cached && Date.now() - cached.timestamp < CACHE_TTL
IsFresh(c, k, t) ==
  /\ MapIndex(c, k) # 0
  /\ t - c[MapIndex(c, k)].timestamp < CACHE_TTL

\* mutant: an overwrite replaces the payload and keeps the old timestamp
MapSetKeepStamp(c, e) ==
  IF MapIndex(c, e.key) # 0
  THEN [i \in 1 .. Len(c) |->
          IF c[i].key = e.key THEN [e EXCEPT !.timestamp = c[i].timestamp]
          ELSE c[i]]
  ELSE Append(c, e)

\* mutant: set() adds an entry even when the key is already present
MapSetAppend(c, e) == Append(c, e)

\* contextCache.set(key, value): an existing key keeps its place in the
\* insertion order, a new key goes last
MapSet(c, e) ==
  IF MapIndex(c, e.key) # 0
  THEN [i \in 1 .. Len(c) |-> IF c[i].key = e.key THEN e ELSE c[i]]
  ELSE Append(c, e)

\* mutant: of two entries with equal timestamps the later one comes first
RankTiesReversed(c, i) ==
  Cardinality({j \in 1 .. Len(c) :
     \/ c[j].timestamp > c[i].timestamp
     \/ c[j].timestamp = c[i].timestamp /\ j > i})

\* entries.sort((a, b) => b[1].timestamp - a[1].timestamp), a stable sort:
\* the place of entry i is one more than the number of entries before it
Rank(c, i) ==
  Cardinality({j \in 1 .. Len(c) :
     \/ c[j].timestamp > c[i].timestamp
     \/ c[j].timestamp = c[i].timestamp /\ j < i})

\* mutant: the comparator is a.timestamp - b.timestamp, oldest first
SortAscending(c) ==
  LET rank == [i \in 1 .. Len(c) |->
                 Cardinality({j \in 1 .. Len(c) :
                    \/ c[j].timestamp < c[i].timestamp
                    \/ c[j].timestamp = c[i].timestamp /\ j < i})]
  IN [n \in 1 .. Len(c) |-> c[CHOOSE i \in 1 .. Len(c) : rank[i] = n - 1]]

SortDescending(c) ==
  LET rank == [i \in 1 .. Len(c) |-> Rank(c, i)]
  IN [n \in 1 .. Len(c) |-> c[CHOOSE i \in 1 .. Len(c) : rank[i] = n - 1]]

\* mutant: the deleting loop starts one entry late
EvictInPlaceLate(c) ==
  IF Len(c) > CacheCapacity
  THEN LET sorted == SortDescending(c)
           gone == {sorted[i].key : i \in CacheCapacity + 2 .. Len(c)}
           Keep(e) == e.key \notin gone
       IN SelectSeq(c, Keep)
  ELSE c

\* tools: for (let i = 50; i < entries.length; i += 1) contextCache.delete(...)
EvictInPlace(c) ==
  IF Len(c) > CacheCapacity
  THEN LET sorted == SortDescending(c)
           gone == {sorted[i].key : i \in CacheCapacity + 1 .. Len(c)}
           Keep(e) == e.key \notin gone
       IN SelectSeq(c, Keep)
  ELSE c

\* mutant: the rebuilt map keeps the 50 oldest entries
EvictRebuildOldest(c) ==
  IF Len(c) > CacheCapacity
  THEN SubSeq(SortAscending(c), 1, CacheCapacity)
  ELSE c

\* resources: contextCache.clear(); entries.slice(0, 50).forEach(set)
EvictRebuild(c) ==
  IF Len(c) > CacheCapacity
  THEN SubSeq(SortDescending(c), 1, CacheCapacity)
  ELSE c

Evict(im, c) == IF im = "tools" THEN EvictInPlace(c) ELSE EvictRebuild(c)

\* mutant: the put also purges every entry aged CACHE_TTL or more
PutPurging(im, c, k, t, d, o) ==
  LET Young(e) == t - e.timestamp < CACHE_TTL
  IN SelectSeq(
       Evict(im, MapSet(c, [key |-> k, timestamp |-> t, data |-> d, obj |-> o])),
       Young)

\* contextCache.set(hash, { timestamp: Date.now(), data: context }) followed
\* by the clean-up of old entries
Put(im, c, k, t, d, o) ==
  Evict(im, MapSet(c, [key |-> k, timestamp |-> t, data |-> d, obj |-> o]))

\* ----------------------------------------------------- file resource: paths
\* A path is the sequence of its segments, a segment a sequence of characters;
\* the empty sequence of segments is the filesystem root "/".
\* path.sep
SEP == "/"

\* const MAX_BYTES = 2 * 1024 * 1024
MAX_BYTES == 2 * 1024 * 1024

\* names of directory entries
nA == <<"a">>
nB == <<"b">>
nBC == <<"b", "c">>
nC == <<"c">>
nD == <<"d">>
nG == <<"g">>
nL == <<"l">>
nM == <<"m">>
nR == <<"r">>
nS == <<"s">>
nX == <<"x">>
\* the parent directory
DotDot == <<".", ".">>

\* the text "?root=" that introduces the root parameter in a URI
RootQuery == <<"?", "r", "o", "o", "t", "=">>

\* the string a path is written as: "/" or "/seg/seg..."
RECURSIVE PathString(_)
PathString(p) ==
  IF p = <<>> THEN <<SEP>>
  ELSE IF Len(p) = 1 THEN <<SEP>> \o p[1]
  ELSE PathString(SubSeq(p, 1, Len(p) - 1)) \o <<SEP>> \o p[Len(p)]

\* String.prototype.startsWith / endsWith
StartsWith(s, prefix) ==
  Len(s) >= Len(prefix) /\ SubSeq(s, 1, Len(prefix)) = prefix
EndsWith(s, suffix) ==
  Len(s) >= Len(suffix) /\ SubSeq(s, Len(s) - Len(suffix) + 1, Len(s)) = suffix

\* ------------------------------------------------------ file resource: disk
Directory == [kind |-> "dir", size |-> 4096]
RegularFile(n) == [kind |-> "file", size |-> n]
\* a FIFO, socket or device node
SpecialFile == [kind |-> "special", size |-> 0]

\* The directory tree:
\*   /a/b            a project root, with the regular files c (10 bytes),
\*                   m (MAX_BYTES) and g (MAX_BYTES + 1), the directory d,
\*                   the special file s and the symlink l -> /a/c
\*   /a/bc, /a/c     regular files beside the project root
\*   /a/r            a symlink to /a/b
\*   /a/c?root=/a/b  a regular file under directories named "c?root=" and "a"
DiskNodes ==
  (<<>> :> Directory) @@
  (<<nA>> :> Directory) @@
  (<<nA, nB>> :> Directory) @@
  (<<nA, nB, nC>> :> RegularFile(10)) @@
  (<<nA, nB, nD>> :> Directory) @@
  (<<nA, nB, nM>> :> RegularFile(MAX_BYTES)) @@
  (<<nA, nB, nG>> :> RegularFile(MAX_BYTES + 1)) @@
  (<<nA, nB, nS>> :> SpecialFile) @@
  (<<nA, nBC>> :> RegularFile(10)) @@
  (<<nA, nC>> :> RegularFile(10)) @@
  (<<nA, nC \o RootQuery>> :> Directory) @@
  (<<nA, nC \o RootQuery, nA>> :> Directory) @@
  (<<nA, nC \o RootQuery, nA, nB>> :> RegularFile(10))

DiskLinks ==
  (<<nA, nB, nL>> :> <<nA, nC>>) @@
  (<<nA, nR>> :> <<nA, nB>>)

\* the disk as the server finds it, started in directory cwd
Disk(cwd) == [nodes |-> DiskNodes, links |-> DiskLinks, cwd |-> cwd]

\* directories the server may have been started in
WorkingDirectories == {<<>>, <<nA>>}

\* symlinks followed before the lookup gives up (ELOOP)
MaxLinks == 4

Unresolved == [ok |-> FALSE, path |-> <<>>]

\* the walk of a path from the resolved prefix cur through the segments rest
RECURSIVE Walk(_, _, _, _)
Walk(d, cur, rest, fuel) ==
  IF rest = <<>> THEN [ok |-> TRUE, path |-> cur]
  ELSE IF Head(rest) = DotDot
  THEN Walk(d, IF cur = <<>> THEN cur ELSE SubSeq(cur, 1, Len(cur) - 1),
            Tail(rest), fuel)
  ELSE LET nxt == Append(cur, Head(rest))
       IN IF nxt \in DOMAIN d.links
          THEN IF fuel = 0 THEN Unresolved
               ELSE Walk(d, <<>>, d.links[nxt] \o Tail(rest), fuel - 1)
          ELSE IF nxt \in DOMAIN d.nodes /\ d.nodes[cur].kind = "dir"
          THEN Walk(d, nxt, Tail(rest), fuel)
          ELSE Unresolved

\* mutant: the path is taken as written, no link is followed
realpathLexical(d, p) ==
  IF p \in DOMAIN d.nodes \cup DOMAIN d.links
  THEN [ok |-> TRUE, path |-> p]
  ELSE Unresolved

\* fs.realpath(p): the canonical path, every symlink followed; it rejects
\* when the path names nothing
realpath(d, p) == Walk(d, <<>>, p, MaxLinks)

NoStats == [ok |-> FALSE, path |-> <<>>, kind |-> "none", size |-> 0]

\* fs.stat(p): follows symlinks; the node the path leads to
stat(d, p) ==
  LET r == Walk(d, <<>>, p, MaxLinks)
  IN IF r.ok
     THEN [ok |-> TRUE, path |-> r.path,
           kind |-> d.nodes[r.path].kind, size |-> d.nodes[r.path].size]
     ELSE NoStats

\* ------------------------------------------------------- file resource: URI
\* `project://file<path>` or `project://file<path>?root=<root>`
NoRoot == [given |-> FALSE, path |-> <<>>]
Root(p) == [given |-> TRUE, path |-> p]

\* path.resolve(p) of an absolute path: ".." steps back, lexically
RECURSIVE resolve(_, _)
resolve(done, rest) ==
  IF rest = <<>> THEN done
  ELSE IF Head(rest) = DotDot
  THEN resolve(IF done = <<>> THEN done ELSE SubSeq(done, 1, Len(done) - 1),
               Tail(rest))
  ELSE resolve(Append(done, Head(rest)), Tail(rest))

\* tools: path.resolve(decodeURIComponent(url.pathname))
ResolvedPath(d, uri) == resolve(<<>>, uri.path)

\* resources: uri.replace('project://file/', ''): what follows the prefix, the
\* query included, read relative to the working directory
LiteralPath(d, uri) ==
  d.cwd \o
    (IF ~uri.root.given THEN uri.path
     ELSE IF uri.path = <<>> THEN <<RootQuery>> \o uri.root.path
     ELSE SubSeq(uri.path, 1, Len(uri.path) - 1)
            \o <<uri.path[Len(uri.path)] \o RootQuery>> \o uri.root.path)

\* resources: the text after the prefix ends in "/" (root=/): only a directory
\* can be meant
TrailingSlash(uri) == uri.root.given /\ uri.root.path = <<>>

\* mutant: the root is compared as realpath returned it
normalizedRootBare(realRoot) == realRoot

\* realRoot.endsWith(path.sep) ? realRoot : `${realRoot}${path.sep}`
normalizedRoot(realRoot) ==
  IF EndsWith(realRoot, <<SEP>>) THEN realRoot ELSE realRoot \o <<SEP>>

\* realTarget !== realRoot && !realTarget.startsWith(normalizedRoot)
Outside(realRoot, realTarget) ==
  /\ realTarget # realRoot
  /\ ~StartsWith(realTarget, normalizedRoot(realRoot))

\* what a file request ends with
FileError(message) == <<"error", "Failed to read file: ", message>>
AccessDenied ==
  FileError("Access denied: file is outside of the allowed project root")
NotAFile == FileError("Requested path is not a file")
TooLarge == FileError("File too large")
NoEntry == FileError("ENOENT: no such file or directory")
ReadFailed == FileError("EISDIR: illegal operation on a directory, read")
\* resources: thrown before the try block
FilePathRequired == <<"error", "File path is required">>
\* contents[0]: the text is the whole of the node readFile opened;
\* metadata.size is what fs.stat reported
FileContents(node, st) ==
  <<"contents", [origin |-> node.path, text |-> node.size, size |-> st.size]>>

NoUri == [path |-> <<>>, root |-> NoRoot]
FileIdle ==
  [pc |-> "idle", uri |-> NoUri, filePath |-> <<>>,
   stats |-> NoStats, result |-> <<>>]

\* ------------------------------------------------------- search: the pattern
\* A query is a sequence of characters.
LF == "\n"
Quantifiers == {"+", "*"}
\* what `.` does not match in a JavaScript regular expression without the s
\* flag
LineTerminators == {LF}
\* String.prototype.trim removes these
Whitespace == {LF, " "}

\* isRegexSafe(pattern, maxLength = 200)
maxLength == 200

\* /(\(.*X.*\))Y/.test(pattern) for the quantifier characters X and Y: a "(",
\* later an X, later a ")" directly followed by a Y, and no line terminator
\* between the "(" and the ")"
TestDangerous(pattern, inner, outer) ==
  \E i \in 1 .. Len(pattern) :
     /\ pattern[i] = "("
     /\ \E k \in i + 2 .. Len(pattern) - 1 :
          /\ pattern[k] = ")"
          /\ pattern[k + 1] = outer
          /\ \E j \in i + 1 .. k - 1 : pattern[j] = inner
          /\ \A m \in i + 1 .. k - 1 : pattern[m] \notin LineTerminators

\* if (pattern.length === 0 || pattern.length > maxLength) return false;
\* return !dangerous.some((regex) => regex.test(pattern))
isRegexSafe(pattern) ==
  /\ ~(Len(pattern) = 0 \/ Len(pattern) > maxLength)
  /\ ~\E inner \in Quantifiers, outer \in Quantifiers :
        TestDangerous(pattern, inner, outer)

\* new RegExp(query, 'gi') throws a SyntaxError unless the pattern is well
\* formed: a scan that keeps the depth of open groups, whether a character
\* class is open, and whether something stands before the cursor that a
\* quantifier can repeat
ScanStart == [ok |-> TRUE, depth |-> 0, class |-> FALSE, atom |-> FALSE]

ScanChar(st, c) ==
  IF ~st.ok THEN st
  ELSE IF st.class THEN [st EXCEPT !.class = c # "]", !.atom = TRUE]
  ELSE IF c = "[" THEN [st EXCEPT !.class = TRUE, !.atom = TRUE]
  ELSE IF c = "(" THEN [st EXCEPT !.depth = @ + 1, !.atom = FALSE]
  ELSE IF c = ")" THEN [st EXCEPT !.ok = st.depth > 0, !.depth = @ - 1,
                                  !.atom = TRUE]
  ELSE IF c = "|" THEN [st EXCEPT !.atom = FALSE]
  ELSE IF c \in Quantifiers THEN [st EXCEPT !.ok = st.atom, !.atom = FALSE]
  ELSE [st EXCEPT !.atom = TRUE]

\* the scan of pattern[lo .. hi], in halves
RECURSIVE Scan(_, _, _, _)
Scan(st, pattern, lo, hi) ==
  IF lo > hi THEN st
  ELSE IF lo = hi THEN ScanChar(st, pattern[lo])
  ELSE LET mid == (lo + hi) \div 2
           left == Scan(st, pattern, lo, mid)
       IN IF left.ok THEN Scan(left, pattern, mid + 1, hi) ELSE left

Compiles(query) ==
  LET st == Scan(ScanStart, query, 1, Len(query))
  IN st.ok /\ st.depth = 0 /\ ~st.class

\* !query || !query.trim()
IsBlank(query) == \A i \in 1 .. Len(query) : query[i] \in Whitespace

\* what a search call ends with
SearchError(message) == <<"error", "Failed to search codebase: ", message>>
QueryRequired == SearchError("query is required")
\* the envelope: query, searchType, results and summary
SearchEnvelope(query, searchType, results, filesSearched) ==
  <<"content", [query |-> query, searchType |-> searchType,
                results |-> results, filesSearched |-> filesSearched]>>

SearchIdle ==
  [pc |-> "idle", variant |-> "guarded", query |-> <<>>, searchType |-> "text",
   files |-> <<>>, next |-> 1, gate |-> "uncalled", compiled |-> FALSE,
   executed |-> FALSE, results |-> 0, result |-> <<>>]

\* ------------------------------------------------- top-level requests, idle
\* no tool call and no resource read has arrived
RouteIdle ==
  [pc |-> "idle", call |-> "none", text |-> <<>>, handler |-> "none",
   tool |-> "none", result |-> <<>>]

\* the two clean-ups side by side: nothing put yet
TwinIdle == [tools |-> <<>>, resources |-> <<>>, now |-> 0, puts |-> 0, ticks |-> 0]

\* the matching loop of searchInFile: not entered
ScanIdle ==
  [pc |-> "idle", variant |-> "guarded", query |-> <<>>, line |-> <<>>,
   lastIndex |-> 0, matches |-> 0]

\* ---------------------------------------------------------------------- state
VARIABLES
  impl,      \* which implementation runs
  cache,     \* contextCache, in insertion order
  now,       \* Date.now()
  ticks,     \* how often the clock has advanced
  pc,        \* per request: where it is suspended
  args,      \* per request: hash segment, path and task of the URI
  context,   \* per request: the local variable `context`
  result,    \* per request: what the caller received
  disk,      \* the filesystem and the working directory of the server
  file,      \* the file-resource request: position, URI, locals, outcome
  search,    \* the search_codebase call: position, arguments, outcome
  keyed,     \* descriptors whose cache key has been computed
  route,     \* the top-level request: handler chosen, what the caller gets
  twin,      \* one sequence of puts applied to both clean-ups
  scan       \* the matching loop of searchInFile over one line

vars ==
  <<impl, cache, now, ticks, pc, args, context, result, disk, file, search,
    keyed, route, twin, scan>>

\* the variables of the context requests
contextVars == <<cache, now, ticks, pc, args, context, result>>
\* the variables of the file-resource request
fileVars == <<disk, file>>
\* the variables of the search call and of the key computation
searchVars == <<search>>
keyVars == <<keyed>>
\* the variables of the router, of the twin caches and of the matching loop
routeVars == <<route>>
twinVars == <<twin>>
scanVars == <<scan>>
\* what a context request leaves alone
nonContextVars == <<fileVars, searchVars, keyVars, routeVars, twinVars, scanVars>>

NoArgs == [hash |-> NoHash, path |-> NoPath, task |-> NoTask]

\* the payload of an entry stored by an earlier request whose providers all
\* succeeded
WarmData(im, i, t) ==
  [NewContext(t, WarmPath(i), generateContextHash(im, WarmPath(i), NoTask))
     EXCEPT !.structure = Tree(WarmPath(i)), !.git = GitInfo(WarmPath(i))]

\* the cache after n earlier requests for n distinct paths, the i-th stored
\* at time i * step
WarmCache(im, n, step) ==
  [i \in 1 .. n |->
     [key |-> generateContextHash(im, WarmPath(i), NoTask),
      timestamp |-> i * step,
      data |-> WarmData(im, i, i * step),
      obj |-> 0]]

\* how many entries the cache holds at the start
WarmSizes == {0, CacheCapacity}
\* distance in time of the earlier requests
WarmSteps == {0, 1}

Init ==
  /\ impl \in Impls
  /\ \E n \in WarmSizes, step \in WarmSteps :
       /\ cache = WarmCache(impl, n, step)
       /\ now = n * step
  /\ ticks = 0
  /\ pc = [r \in Slots |-> "idle"]
  /\ args = [r \in Slots |-> NoArgs]
  /\ context = [r \in Slots |-> NewContext(0, NoPath, NoHash)]
  /\ result = [r \in Slots |-> <<>>]
  /\ disk = Disk(<<>>)
  /\ file = FileIdle
  /\ search = SearchIdle
  /\ keyed = <<>>
  /\ route = RouteIdle
  /\ twin = TwinIdle
  /\ scan = ScanIdle

\* ------------------------------------------------------------ request inputs
\* hash segments, paths and tasks the requests of a behaviour carry
Clock == {CACHE_TTL - 1, CACHE_TTL}
PathInputs == {NoPath, 1, WarmPath(1)}
TaskInputs == {NoTask, 1}
HashInputs(im) ==
  IF im = "tools"
  THEN {NoHash, generateContextHash(im, 1, 1),
        generateContextHash(im, WarmPath(1), NoTask)}
  ELSE {NoHash}

\* the hash segments of the requests served one at a time: either
\* implementation is sent the key of (1, 1) and the key of the first entry
SuppliedHashes(im) ==
  {NoHash, generateContextHash(im, 1, 1),
   generateContextHash(im, WarmPath(1), NoTask)}

\* ------------------------------------------------------------------ providers
\* getProjectStructure resolves or rejects
StructureEnv == {"ok", "fail"}
\* getGitContext resolves, or rejects because isGitRepo is false ('Not a git
\* repository') or because a git command failed
GitEnv == {"ok", "notrepo", "fail"}
\* smartFileSelection resolves or rejects
FilesEnv == {"ok", "fail"}

\* try { context.structure = ... } catch (error) { context.structureError = ... }
WithStructure(ctx, env) ==
  IF env = "ok" THEN [ctx EXCEPT !.structure = Tree(ctx.projectPath)]
  ELSE [ctx EXCEPT !.structureError = StructureFailure]

\* mutant: the catch block starts the payload afresh
WithGitClobber(ctx, env) ==
  IF env = "ok" THEN [ctx EXCEPT !.git = GitInfo(ctx.projectPath)]
  ELSE [ctx EXCEPT !.git = Null, !.structure = Absent]

\* try { context.git = ... } catch (error) { context.git = null }
WithGit(ctx, env) ==
  IF env = "ok" THEN [ctx EXCEPT !.git = GitInfo(ctx.projectPath)]
  ELSE [ctx EXCEPT !.git = Null]

\* mutant: relevantFiles is set before the call and stays when it fails
WithFilesBoth(ctx, t, env) ==
  IF env = "ok" THEN [ctx EXCEPT !.relevantFiles = Files(ctx.projectPath, t)]
  ELSE [ctx EXCEPT !.relevantFiles = Files(ctx.projectPath, t),
                   !.filesError = FilesFailure]

\* try { context.relevantFiles = ... } catch (error) { context.filesError = ... }
WithFiles(ctx, t, env) ==
  IF env = "ok" THEN [ctx EXCEPT !.relevantFiles = Files(ctx.projectPath, t)]
  ELSE [ctx EXCEPT !.filesError = FilesFailure]

\* { ...cached.data, cached: true, hash } in getOrCreateContext
HitCopy(d, h) == [d EXCEPT !.cached = TRUE, !.hash = h]

\* { ...cached.data, cached: true } in getContextResource
HashHitCopy(d) == [d EXCEPT !.cached = TRUE]

\* throw new Error(`Failed to get context: ${error.message}`)
PathRequired ==
  <<"error", "Failed to get context: ",
    "Project path is required (use ?path=/your/project)">>

Contents(d) == <<"contents", d>>

\* mutant: the check of the path is gone
PathMissingNever(p) == FALSE

\* if (!projectPath)
PathMissing(p) == p = NoPath

\* `if (providedHash)` with the lookup under it exists in tools only
LooksUpHash(im, h) == im = "tools" /\ h # NoHash

\* `if (providedHash && providedHash !== context.hash)` exists in tools only
SetsPreviousHash(im, h, ctx) == im = "tools" /\ h # NoHash /\ h # ctx.hash

\* -------------------------------------------------------------------- actions
\* mutant: a hit refreshes the timestamp of the entry (access-time recency)
GetContextResourceTouch(r, h, p, t) ==
  /\ pc[r] = "idle"
  /\ \A q \in Slots : q < r => pc[q] # "idle"
  /\ args' = [args EXCEPT ![r] = [hash |-> h, path |-> p, task |-> t]]
  /\ UNCHANGED <<impl, now, ticks>>
  /\ IF PathMissing(p)
     THEN /\ result' = [result EXCEPT ![r] = PathRequired]
          /\ pc' = [pc EXCEPT ![r] = "done"]
          /\ UNCHANGED <<context, cache>>
     ELSE IF LooksUpHash(impl, h) /\ IsFresh(cache, h, now)
     THEN /\ result' = [result EXCEPT ![r] =
                          Contents(HashHitCopy(cache[MapIndex(cache, h)].data))]
          /\ pc' = [pc EXCEPT ![r] = "done"]
          /\ UNCHANGED <<context, cache>>
     ELSE LET hash == generateContextHash(impl, p, t)
          IN IF IsFresh(cache, hash, now)
             THEN /\ context' = [context EXCEPT ![r] =
                                   HitCopy(cache[MapIndex(cache, hash)].data, hash)]
                  /\ cache' = [cache EXCEPT ![MapIndex(cache, hash)].timestamp = now]
                  /\ pc' = [pc EXCEPT ![r] = "returned"]
                  /\ UNCHANGED result
             ELSE /\ context' = [context EXCEPT ![r] = NewContext(now, p, hash)]
                  /\ pc' = [pc EXCEPT ![r] = "structure"]
                  /\ UNCHANGED <<result, cache>>

\* getContextResource from its call to its first suspension, the synchronous
\* start of getOrCreateContext included
GetContextResource(r, h, p, t) ==
  /\ pc[r] = "idle"
  /\ \A q \in Slots : q < r => pc[q] # "idle"
  /\ args' = [args EXCEPT ![r] = [hash |-> h, path |-> p, task |-> t]]
  /\ UNCHANGED <<impl, cache, now, ticks>>
  /\ IF PathMissing(p)
     THEN /\ result' = [result EXCEPT ![r] = PathRequired]
          /\ pc' = [pc EXCEPT ![r] = "done"]
          /\ UNCHANGED context
     ELSE IF LooksUpHash(impl, h) /\ IsFresh(cache, h, now)
     THEN /\ result' = [result EXCEPT ![r] =
                          Contents(HashHitCopy(cache[MapIndex(cache, h)].data))]
          /\ pc' = [pc EXCEPT ![r] = "done"]
          /\ UNCHANGED context
     ELSE LET hash == generateContextHash(impl, p, t)
          IN IF IsFresh(cache, hash, now)
             THEN /\ context' = [context EXCEPT ![r] =
                                   HitCopy(cache[MapIndex(cache, hash)].data, hash)]
                  /\ pc' = [pc EXCEPT ![r] = "returned"]
                  /\ UNCHANGED result
             ELSE /\ context' = [context EXCEPT ![r] = NewContext(now, p, hash)]
                  /\ pc' = [pc EXCEPT ![r] = "structure"]
                  /\ UNCHANGED result

\* the tail of getOrCreateContext: store, clean up, return
StoreAndReturn(r, ctx) ==
  /\ context' = [context EXCEPT ![r] = ctx]
  /\ cache' = Put(impl, cache, ctx.hash, now, ctx, r)
  /\ pc' = [pc EXCEPT ![r] = "returned"]

\* mutant: no try around the call, a rejection ends the request
StructureSettlesFailFast(r, env) ==
  /\ pc[r] = "structure"
  /\ UNCHANGED <<impl, cache, now, ticks, args>>
  /\ IF env = "ok"
     THEN /\ context' = [context EXCEPT ![r] = WithStructure(context[r], env)]
          /\ pc' = [pc EXCEPT ![r] = "git"]
          /\ UNCHANGED result
     ELSE /\ result' = [result EXCEPT ![r] =
                          <<"error", "Failed to get context: Failed to get project structure">>]
          /\ pc' = [pc EXCEPT ![r] = "done"]
          /\ UNCHANGED context

\* `await getProjectStructure(...)` settles; getGitContext is called
StructureSettles(r, env) ==
  /\ pc[r] = "structure"
  /\ context' = [context EXCEPT ![r] = WithStructure(context[r], env)]
  /\ pc' = [pc EXCEPT ![r] = "git"]
  /\ UNCHANGED <<impl, cache, now, ticks, args, result>>

\* mutant: the payload is stored as soon as git has settled, before the
\* relevant files are selected
GitSettlesStoreEarly(r, env) ==
  /\ pc[r] = "git"
  /\ UNCHANGED <<impl, now, ticks, args, result>>
  /\ IF args[r].task # NoTask
     THEN /\ context' = [context EXCEPT ![r] = WithGit(context[r], env)]
          /\ cache' = Put(impl, cache, context[r].hash, now,
                          WithGit(context[r], env), r)
          /\ pc' = [pc EXCEPT ![r] = "files"]
     ELSE StoreAndReturn(r, WithGit(context[r], env))

\* `await getGitContext(...)` settles; with a task smartFileSelection is
\* called, without one the payload is stored
GitSettles(r, env) ==
  /\ pc[r] = "git"
  /\ UNCHANGED <<impl, now, ticks, args, result>>
  /\ IF args[r].task # NoTask
     THEN /\ context' = [context EXCEPT ![r] = WithGit(context[r], env)]
          /\ pc' = [pc EXCEPT ![r] = "files"]
          /\ UNCHANGED cache
     ELSE StoreAndReturn(r, WithGit(context[r], env))

\* `await smartFileSelection(...)` settles; the payload is stored
FilesSettles(r, env) ==
  /\ pc[r] = "files"
  /\ UNCHANGED <<impl, now, ticks, args, result>>
  /\ StoreAndReturn(r, WithFiles(context[r], args[r].task, env))

\* context.previousHash = providedHash: the object the request stored is the
\* object it now writes to
WriteThrough(c, r, ctx) ==
  [i \in 1 .. Len(c) |->
     IF c[i].obj = r THEN [c[i] EXCEPT !.data = ctx] ELSE c[i]]

\* getContextResource resumes after `await getOrCreateContext(...)`
ContextReturns(r) ==
  /\ pc[r] = "returned"
  /\ LET ctx == IF SetsPreviousHash(impl, args[r].hash, context[r])
                THEN [context[r] EXCEPT !.previousHash = args[r].hash]
                ELSE context[r]
     IN /\ context' = [context EXCEPT ![r] = ctx]
        /\ cache' = IF context[r].cached THEN cache
                    ELSE WriteThrough(cache, r, ctx)
        /\ result' = [result EXCEPT ![r] = Contents(ctx)]
  /\ pc' = [pc EXCEPT ![r] = "done"]
  /\ UNCHANGED <<impl, now, ticks, args>>

\* the wall clock advances
Tick(d) ==
  /\ ticks < MaxTicks
  /\ ticks' = ticks + 1
  /\ now' = now + d
  /\ UNCHANGED <<impl, cache, pc, args, context, result>>

\* concurrent requests against the shared cache; the providers succeed
Next ==
  \/ \E r \in Slots, h \in HashInputs(impl), p \in PathInputs, t \in TaskInputs :
       GetContextResource(r, h, p, t) /\ UNCHANGED nonContextVars
  \/ \E r \in Slots : StructureSettles(r, "ok") /\ UNCHANGED nonContextVars
  \/ \E r \in Slots : GitSettles(r, "ok") /\ UNCHANGED nonContextVars
  \/ \E r \in Slots : FilesSettles(r, "ok") /\ UNCHANGED nonContextVars
  \/ \E r \in Slots : ContextReturns(r) /\ UNCHANGED nonContextVars
  \/ \E d \in Clock : Tick(d) /\ UNCHANGED nonContextVars

Spec == Init /\ [][Next]_vars

\* one request at a time; every provider settles either way
NextPipeline ==
  \/ \E h \in SuppliedHashes(impl), p \in PathInputs, t \in TaskInputs :
       GetContextResource(1, h, p, t) /\ UNCHANGED nonContextVars
  \/ \E env \in StructureEnv : StructureSettles(1, env) /\ UNCHANGED nonContextVars
  \/ \E env \in GitEnv : GitSettles(1, env) /\ UNCHANGED nonContextVars
  \/ \E env \in FilesEnv : FilesSettles(1, env) /\ UNCHANGED nonContextVars
  \/ ContextReturns(1) /\ UNCHANGED nonContextVars
  \/ \E d \in Clock : Tick(d) /\ UNCHANGED nonContextVars

SpecPipeline == Init /\ [][NextPipeline]_vars

\* concurrent requests against the shared cache; every provider settles
\* either way
NextSettle ==
  \/ \E r \in Slots, h \in HashInputs(impl), p \in PathInputs, t \in TaskInputs :
       GetContextResource(r, h, p, t) /\ UNCHANGED nonContextVars
  \/ \E r \in Slots, env \in StructureEnv :
       StructureSettles(r, env) /\ UNCHANGED nonContextVars
  \/ \E r \in Slots, env \in GitEnv :
       GitSettles(r, env) /\ UNCHANGED nonContextVars
  \/ \E r \in Slots, env \in FilesEnv :
       FilesSettles(r, env) /\ UNCHANGED nonContextVars
  \/ \E r \in Slots : ContextReturns(r) /\ UNCHANGED nonContextVars
  \/ \E d \in Clock : Tick(d) /\ UNCHANGED nonContextVars

\* the payload of a request for path p and task t that ran the whole pipeline
\* at time 0, every provider settling as env says
EarlierPayload(im, p, t, env) ==
  LET made == WithGit(WithStructure(
                NewContext(0, p, generateContextHash(im, p, t)), env), env)
  IN IF t = NoTask THEN made ELSE WithFiles(made, t, env)

\* how the providers of the earlier request settled
EarlierEnv == {"ok", "fail"}

\* Either the server has just started and the cache is empty, or two requests
\* for the same path and task missed the empty cache together: one has run
\* its pipeline, stored its payload and been answered, the other (request 1)
\* still awaits its first provider.
InitSettle ==
  /\ impl \in Impls
  /\ now = 0
  /\ ticks = 0
  /\ result = [r \in Slots |-> <<>>]
  /\ \/ /\ cache = <<>>
        /\ pc = [r \in Slots |-> "idle"]
        /\ args = [r \in Slots |-> NoArgs]
        /\ context = [r \in Slots |-> NewContext(0, NoPath, NoHash)]
     \/ \E t \in TaskInputs, env \in EarlierEnv :
          LET key == generateContextHash(impl, 1, t)
          IN /\ cache = <<[key |-> key, timestamp |-> 0,
                           data |-> EarlierPayload(impl, 1, t, env),
                           obj |-> 0]>>
             /\ pc = [r \in Slots |-> IF r = 1 THEN "structure" ELSE "idle"]
             /\ args = [r \in Slots |->
                          IF r = 1 THEN [hash |-> NoHash, path |-> 1, task |-> t]
                          ELSE NoArgs]
             /\ context = [r \in Slots |->
                             IF r = 1 THEN NewContext(0, 1, key)
                             ELSE NewContext(0, NoPath, NoHash)]
  /\ disk = Disk(<<>>)
  /\ file = FileIdle
  /\ search = SearchIdle
  /\ keyed = <<>>
  /\ route = RouteIdle
  /\ twin = TwinIdle
  /\ scan = ScanIdle

SpecSettle == InitSettle /\ [][NextSettle]_vars

\* ------------------------------------------------------------------- typing
TypeOK ==
  /\ impl \in Impls
  /\ Len(cache) <= CacheCapacity + 1
  /\ \A r \in Slots : pc[r] \in {"idle", "structure", "git", "files", "returned", "done"}

\* ---------------------------------------------- file resource: the request
\* no context request runs
ContextIdle ==
  /\ cache = <<>>
  /\ now = 0
  /\ ticks = 0
  /\ pc = [r \in Slots |-> "idle"]
  /\ args = [r \in Slots |-> NoArgs]
  /\ context = [r \in Slots |-> NewContext(0, NoPath, NoHash)]
  /\ result = [r \in Slots |-> <<>>]

InitFile ==
  /\ impl \in Impls
  /\ ContextIdle
  /\ disk \in {Disk(cwd) : cwd \in WorkingDirectories}
  /\ file = FileIdle
  /\ search = SearchIdle
  /\ keyed = <<>>
  /\ route = RouteIdle
  /\ twin = TwinIdle
  /\ scan = ScanIdle

\* the path part of the URIs a behaviour may request
UriPaths ==
  {<<>>, <<nA, nB>>, <<nA, nB, nC>>, <<nA, nBC>>, <<nA, nC>>,
   <<nA, nB, nL>>, <<nA, nB, nD>>, <<nA, nB, nM>>, <<nA, nB, nG>>,
   <<nA, nB, nS>>, <<nA, nX>>, <<nA, nR, nC>>, <<nA, nB, DotDot, nC>>,
   <<nB, nG>>}

\* the root parameter of the URIs: none, a directory, a symlink to it, the
\* filesystem root, a name that does not exist
UriRoots ==
  {NoRoot, Root(<<nA, nB>>), Root(<<nA, nR>>), Root(<<>>), Root(<<nA, nX>>)}

FileUris == [path : UriPaths, root : UriRoots]

\* what readFile can do with a node
ReadOutcomes == {"content", "error"}

\* getFileResource from its call to its first suspension
GetFileResource(uri) ==
  /\ file.pc = "idle"
  /\ IF impl = "tools"
     THEN file' = [file EXCEPT
                     !.uri = uri,
                     !.filePath = ResolvedPath(disk, uri),
                     !.pc = IF uri.root.given THEN "realpath" ELSE "stat"]
     ELSE IF uri.path = <<>> /\ ~uri.root.given
     THEN file' = [file EXCEPT
                     !.uri = uri, !.result = FilePathRequired, !.pc = "done"]
     ELSE file' = [file EXCEPT
                     !.uri = uri,
                     !.filePath = LiteralPath(disk, uri),
                     !.pc = "read"]
  /\ UNCHANGED <<impl, contextVars, disk, searchVars, keyVars>>

\* tools: `await Promise.all([fs.realpath(root), fs.realpath(filePath)])`
\* settles, the containment test follows; fs.stat is called
RealpathSettles ==
  /\ file.pc = "realpath"
  /\ LET realRoot == realpath(disk, file.uri.root.path)
         realTarget == realpath(disk, file.filePath)
     IN IF ~realRoot.ok \/ ~realTarget.ok
        THEN file' = [file EXCEPT !.result = NoEntry, !.pc = "done"]
        ELSE IF Outside(PathString(realRoot.path), PathString(realTarget.path))
        THEN file' = [file EXCEPT !.result = AccessDenied, !.pc = "done"]
        ELSE file' = [file EXCEPT !.pc = "stat"]
  /\ UNCHANGED <<impl, contextVars, disk, searchVars, keyVars>>

\* stats.size > MAX_BYTES
TooBig(st) == st.size > MAX_BYTES

\* `await fs.stat(filePath)` settles.  tools: the node must be a regular file
\* of at most MAX_BYTES, then readFile is called.  resources: the text is
\* already read, the result is returned.
StatSettles ==
  /\ file.pc = "stat"
  /\ LET st == stat(disk, file.filePath)
     IN IF impl = "tools"
        THEN IF ~st.ok
             THEN file' = [file EXCEPT !.result = NoEntry, !.pc = "done"]
             ELSE IF st.kind # "file"
             THEN file' = [file EXCEPT !.result = NotAFile, !.pc = "done"]
             ELSE IF TooBig(st)
             THEN file' = [file EXCEPT !.result = TooLarge, !.pc = "done"]
             ELSE file' = [file EXCEPT !.stats = st, !.pc = "read"]
        ELSE IF ~st.ok
             THEN file' = [file EXCEPT !.result = NoEntry, !.pc = "done"]
             ELSE file' = [file EXCEPT
                             !.result = FileContents(file.stats, st),
                             !.pc = "done"]
  /\ UNCHANGED <<impl, contextVars, disk, searchVars, keyVars>>

\* `await fs.readFile(filePath, 'utf-8')` settles: the whole text of a regular
\* file; a rejection for a directory or a missing node; either for a special
\* file.  tools: the result is returned.  resources: fs.stat is called.
ReadSettles(outcome) ==
  /\ file.pc = "read"
  /\ LET node == stat(disk, file.filePath)
         readable == node.ok /\ ~(impl = "resources" /\ TrailingSlash(file.uri))
     IN /\ outcome = "content" => readable /\ node.kind \in {"file", "special"}
        /\ outcome = "error" => ~(readable /\ node.kind = "file")
        /\ IF outcome = "error"
           THEN file' = [file EXCEPT
                           !.result = IF node.ok THEN ReadFailed ELSE NoEntry,
                           !.pc = "done"]
           ELSE IF impl = "tools"
           THEN file' = [file EXCEPT
                           !.result = FileContents(node, file.stats),
                           !.pc = "done"]
           ELSE file' = [file EXCEPT !.stats = node, !.pc = "stat"]
  /\ UNCHANGED <<impl, contextVars, disk, searchVars, keyVars>>

\* one file-resource read, by either handler
NextFile ==
  \/ \E uri \in FileUris :
       GetFileResource(uri) /\ UNCHANGED <<routeVars, twinVars, scanVars>>
  \/ RealpathSettles /\ UNCHANGED <<routeVars, twinVars, scanVars>>
  \/ StatSettles /\ UNCHANGED <<routeVars, twinVars, scanVars>>
  \/ \E outcome \in ReadOutcomes :
       ReadSettles(outcome) /\ UNCHANGED <<routeVars, twinVars, scanVars>>

SpecFile == InitFile /\ [][NextFile]_vars

\* ------------------------------------------- file resource: a changing disk
\* the symlink another process may retarget while a read is suspended, and
\* what it may point it to: a file within the project root, a file beside it
SwappedLink == <<nA, nB, nL>>
SwapTargets == {<<nA, nB, nC>>, <<nA, nC>>}

\* another process replaces the symlink while getFileResource awaits (or
\* before it is called): nothing in the handler holds the file between
\* fs.realpath, fs.stat and fs.readFile, each of which walks the path anew
SwapLink(target) ==
  /\ disk.links[SwappedLink] # target
  /\ disk' = [disk EXCEPT !.links[SwappedLink] = target]
  /\ UNCHANGED <<impl, contextVars, file, searchVars, keyVars,
                 routeVars, twinVars, scanVars>>

\* one file-resource read on a disk that another process changes
NextFileRace ==
  \/ NextFile
  \/ \E target \in SwapTargets : SwapLink(target)

SpecFileRace == InitFile /\ [][NextFileRace]_vars

\* ------------------------------------------------------- search: the call
\* search.ts holds two searchInFile/searchCodebase pairs: lines 30-228 with
\* isRegexSafe and argument validation, lines 298-413 without either
SearchVariants == {"guarded", "unguarded"}

\* longest query of the exhaustive part of the inputs
MaxPatternLen == 4
PatternChars == {"(", ")", "+", "*", "a", LF}

Repeat(c, n) == [i \in 1 .. n |-> c]

\* every query of up to MaxPatternLen characters
ShortQueries == UNION {[1 .. n -> PatternChars] : n \in 0 .. MaxPatternLen}

\* the four shapes around "a", "[a-z]+", groups holding a line feed,
\* queries of maxLength and maxLength + 1 characters with and without a
\* nested quantifier, and a query of two blanks
LongQueries ==
  {<<"(", "a", "+", ")", "+">>,
   <<"(", "a", "*", ")", "*">>,
   <<"(", "a", "+", ")", "*">>,
   <<"(", "a", "*", ")", "+">>,
   <<"[", "a", "-", "z", "]", "+">>,
   <<"(", LF, "+", ")", "+">>,
   <<"(", "a", "+", "|", LF, ")", "+", "b">>,
   Repeat("x", maxLength),
   Repeat("x", maxLength + 1),
   <<"(", "a", "+", ")", "+">> \o Repeat("x", maxLength - 5),
   <<"(", "a", "+", ")", "+">> \o Repeat("x", maxLength - 4),
   <<" ", " ">>}

SearchTypes == {"text", "regex", "semantic"}

\* the calls of a behaviour: every query as a regex search, the long ones
\* also as text and semantic searches
SearchArgs ==
  [query : ShortQueries \cup LongQueries, searchType : {"regex"}]
    \cup [query : LongQueries, searchType : SearchTypes]

\* what getMatchingFiles finds: no file, or a file that cannot be read
\* followed by one that can
FileLists == {<<>>, <<"unreadable", "readable">>}

InitSearch ==
  /\ impl = "tools"
  /\ ContextIdle
  /\ disk = Disk(<<>>)
  /\ file = FileIdle
  /\ search \in {[SearchIdle EXCEPT !.variant = v] : v \in SearchVariants}
  /\ keyed = <<>>
  /\ route = RouteIdle
  /\ twin = TwinIdle
  /\ scan = ScanIdle

\* searchCodebase from its call to `await getMatchingFiles(...)`, the project
\* path being an existing directory
SearchCodebase(a) ==
  /\ search.pc = "idle"
  /\ IF search.variant = "guarded" /\ IsBlank(a.query)
     THEN search' = [search EXCEPT
                       !.query = a.query, !.searchType = a.searchType,
                       !.result = QueryRequired, !.pc = "done"]
     ELSE search' = [search EXCEPT
                       !.query = a.query, !.searchType = a.searchType,
                       !.pc = "glob"]
  /\ UNCHANGED <<impl, contextVars, fileVars, keyVars>>

\* getMatchingFiles settles; searchInFile is called for every file
GlobSettles(files) ==
  /\ search.pc = "glob"
  /\ search' = [search EXCEPT !.files = files, !.next = 1, !.pc = "files"]
  /\ UNCHANGED <<impl, contextVars, fileVars, keyVars>>

\* searchInFile treats the query as a regular expression the caller wrote
AsRegex == search.searchType = "regex"

\* if (!isRegexSafe(query)) throw ... : only in the guarded searchInFile
GateStops(variant, query) == variant = "guarded" /\ ~isRegexSafe(query)

\* searchInFile for the next file, from the settling of readFile to its
\* return: every exception, the gate's and the RegExp constructor's included,
\* ends in `catch (error) { // Skip files that can't be read }`
SearchInFile ==
  /\ search.pc = "files"
  /\ search.next <= Len(search.files)
  /\ LET readable == search.files[search.next] = "readable"
         gated == readable /\ AsRegex /\ search.variant = "guarded"
         stopped == readable /\ AsRegex /\ GateStops(search.variant, search.query)
         compiles == readable /\ AsRegex /\ ~stopped
         runs == readable /\ ~stopped /\ (AsRegex => Compiles(search.query))
     IN search' = [search EXCEPT
          !.next = @ + 1,
          !.gate = IF gated
                   THEN IF isRegexSafe(search.query) THEN "true" ELSE "false"
                   ELSE @,
          !.compiled = @ \/ compiles,
          !.executed = @ \/ (runs /\ AsRegex),
          !.results = IF runs THEN @ + 1 ELSE @]
  /\ UNCHANGED <<impl, contextVars, fileVars, keyVars>>

\* `await Promise.all(searchPromises)` settles; the envelope is returned
SearchReturns ==
  /\ search.pc = "files"
  /\ search.next > Len(search.files)
  /\ search' = [search EXCEPT
       !.result = SearchEnvelope(search.query, search.searchType,
                                 search.results, Len(search.files)),
       !.pc = "done"]
  /\ UNCHANGED <<impl, contextVars, fileVars, keyVars>>

NextSearch ==
  \/ \E a \in SearchArgs :
       SearchCodebase(a) /\ UNCHANGED <<routeVars, twinVars, scanVars>>
  \/ \E files \in FileLists :
       GlobSettles(files) /\ UNCHANGED <<routeVars, twinVars, scanVars>>
  \/ SearchInFile /\ UNCHANGED <<routeVars, twinVars, scanVars>>
  \/ SearchReturns /\ UNCHANGED <<routeVars, twinVars, scanVars>>

SpecSearch == InitSearch /\ [][NextSearch]_vars

\* ------------------------------------------------------ the key, as a text
\* The descriptor with its strings spelled out: a path is a sequence of
\* characters, a task is null (no task parameter) or a sequence of characters.
NullTask == [given |-> FALSE, text |-> <<>>]
TaskText(s) == [given |-> TRUE, text |-> s]

\* getContextResource: `taskDescription || undefined`; null and '' are falsy
OrUndefined(task) == IF task.given /\ task.text # <<>> THEN task ELSE NullTask

\* JSON.stringify of a string: in quotes, with `"` and `\` escaped
RECURSIVE Escaped(_)
Escaped(s) ==
  IF s = <<>> THEN <<>>
  ELSE (IF Head(s) \in {"\"", "\\"} THEN <<"\\", Head(s)>> ELSE <<Head(s)>>)
         \o Escaped(Tail(s))

Quoted(s) == <<"\"">> \o Escaped(s) \o <<"\"">>

\* the property names as JSON.stringify writes them
ProjectPathName ==
  <<"\"", "p", "r", "o", "j", "e", "c", "t", "P", "a", "t", "h", "\"", ":">>
TaskDescriptionName ==
  <<"\"", "t", "a", "s", "k", "D", "e", "s", "c", "r", "i", "p", "t", "i", "o",
    "n", "\"", ":">>

\* mutant: the two strings are put one after the other
StringifyParamsConcat(path, task) == path \o task.text

\* JSON.stringify({ projectPath, taskDescription }): a property whose value is
\* undefined is left out
StringifyParams(path, task) ==
  <<"{">> \o ProjectPathName \o Quoted(path)
    \o (IF task.given
        THEN <<",">> \o TaskDescriptionName \o Quoted(task.text)
        ELSE <<>>)
    \o <<"}">>

\* getOrCreateContext(projectPath, taskDescription || undefined): the text
\* that is hashed and the key
HashInput(path, task) == StringifyParams(path, OrUndefined(task))
ContextKey(im, path, task) ==
  Digest(IF im = "tools" THEN "sha256" ELSE "md5", HashInput(path, task))

\* longest path and task of the exhaustive part of the inputs
MaxTextLen == 2
\* descriptors whose key a behaviour computes
MaxKeyed == 2
TextChars == {"a", "\"", "\\"}
Texts == UNION {[1 .. n -> TextChars] : n \in 0 .. MaxTextLen}

\* a path that spells the text JSON.stringify puts between a path "a" and a
\* task "a"
SplicedPath ==
  <<"a", "\"", ",">> \o TaskDescriptionName \o <<"\"", "a">>

PathTexts == (Texts \ {<<>>}) \cup {SplicedPath}
TaskParams == {NullTask} \cup {TaskText(s) : s \in Texts}

InitKey ==
  /\ impl \in Impls
  /\ ContextIdle
  /\ disk = Disk(<<>>)
  /\ file = FileIdle
  /\ search = SearchIdle
  /\ keyed = <<>>
  /\ route = RouteIdle
  /\ twin = TwinIdle
  /\ scan = ScanIdle

\* getOrCreateContext computes the key of a descriptor
ComputeKey(path, task) ==
  /\ Len(keyed) < MaxKeyed
  /\ keyed' = Append(keyed, [path |-> path, task |-> task,
                             input |-> HashInput(path, task),
                             key |-> ContextKey(impl, path, task)])
  /\ UNCHANGED <<impl, contextVars, fileVars, searchVars>>
  /\ UNCHANGED <<routeVars, twinVars, scanVars>>

NextKey == \E path \in PathTexts, task \in TaskParams : ComputeKey(path, task)

SpecKey == InitKey /\ [][NextKey]_vars

\* ---------------------------------------------------------------- the router
\* A URI is the sequence of its characters up to the query; what `new URL`
\* reads from the rest (path, task, root) comes with the request as values.
Scheme == <<"p", "r", "o", "j", "e", "c", "t", ":", "/", "/">>
StructurePrefix == Scheme \o <<"s", "t", "r", "u", "c", "t", "u", "r", "e">>
FilePrefix == Scheme \o <<"f", "i", "l", "e", "/">>
ContextPrefix == Scheme \o <<"c", "o", "n", "t", "e", "x", "t", "/">>

\* mutant: the last branch is a plain else
HandlerOfElseContext(text) ==
  IF StartsWith(text, StructurePrefix) THEN "structure"
  ELSE IF StartsWith(text, FilePrefix) THEN "file"
  ELSE "context"

\* if (uri.startsWith('project://structure')) ... else if
\* (uri.startsWith('project://file/')) ... else if
\* (uri.startsWith('project://context/')) ... else throw
HandlerOf(text) ==
  IF StartsWith(text, StructurePrefix) THEN "structure"
  ELSE IF StartsWith(text, FilePrefix) THEN "file"
  ELSE IF StartsWith(text, ContextPrefix) THEN "context"
  ELSE "none"

\* throw new McpError(ErrorCode.InvalidRequest, `Unknown resource URI: ${uri}`)
UnknownResource == <<"error", "InvalidRequest", "Unknown resource URI: ">>
\* throw new McpError(ErrorCode.MethodNotFound, `Unknown tool: ${name}`)
UnknownTool == <<"error", "MethodNotFound", "Unknown tool: ">>

\* the tools of the switch in the CallTool handler and the prefix each puts
\* before the message of an error it throws
ToolPrefix ==
  [get_project_structure |-> "Failed to get project structure: ",
   smart_file_selection |-> "Failed to perform smart file selection: ",
   analyze_code_graph |-> "Failed to analyze code graph: ",
   search_codebase |-> "Failed to search codebase: ",
   get_git_context |-> "Failed to get git context: "]
ToolNames == DOMAIN ToolPrefix

\* throw new McpError(ErrorCode.InternalError, `Tool execution failed: ${message}`)
ToolExecutionFailed == "Tool execution failed: "
Wrapped(res) ==
  IF res[1] = "error" THEN <<"error", ToolExecutionFailed>> \o Tail(res)
  ELSE res

\* getProjectStructure: its own catch block puts its prefix before the cause
StructureToolError ==
  <<"error", "Failed to get project structure: ", "ENOENT: no such file or directory">>

\* getProjectResource, no path.  tools: thrown inside the try and prefixed by
\* the catch block; resources: thrown as it is
ProjectPathRequired(im) ==
  IF im = "tools"
  THEN <<"error", "Failed to get project structure: ", "Project path is required">>
  ELSE <<"error", "Project path is required">>

\* getProjectResource, getProjectStructure rejected.  tools: the catch block
\* prefixes the message again; resources: the rejection passes through
ProjectResourceError(im) ==
  IF im = "tools"
  THEN <<"error", "Failed to get project structure: ">> \o Tail(StructureToolError)
  ELSE StructureToolError

\* the envelope of a tool: content[0].text
ToolContent(name) == <<"content", name>>

\* ---- the requests a behaviour may send
HashText(h) == IF h = NoHash THEN <<>> ELSE <<"h">>
FileText(uri) == Scheme \o <<"f", "i", "l", "e">> \o PathString(uri.path)

RouterFileUris ==
  [path : {<<>>, <<nA, nB, nC>>, <<nA, nC>>, <<nA, nB, nG>>, <<nA, nX>>},
   root : {NoRoot, Root(<<nA, nB>>)}]

\* URIs that begin with none of the three prefixes
UnknownTexts ==
  {<<>>,
   Scheme \o <<"o", "t", "h", "e", "r">>,
   Scheme \o <<"f", "i", "l", "e">>,
   Scheme \o <<"c", "o", "n", "t", "e", "x", "t">>,
   Scheme \o <<"s", "t", "r", "u", "c", "t", "u", "r">>,
   <<"f", "i", "l", "e", ":", "/", "/", "/", "a">>}

ResourceReads(im) ==
  {[text |-> StructurePrefix \o tail, file |-> NoUri,
    args |-> [hash |-> NoHash, path |-> p, task |-> NoTask]] :
      tail \in {<<>>, <<"s">>}, p \in {NoPath, 1}}
  \cup {[text |-> FileText(u), file |-> u, args |-> NoArgs] : u \in RouterFileUris}
  \cup {[text |-> ContextPrefix \o HashText(h), file |-> NoUri,
         args |-> [hash |-> h, path |-> p, task |-> t]] :
           h \in SuppliedHashes(im), p \in PathInputs, t \in TaskInputs}
  \cup {[text |-> x, file |-> NoUri,
         args |-> [hash |-> NoHash, path |-> 1, task |-> NoTask]] :
           x \in UnknownTexts}

RouterSearchArgs ==
  [query : {<<"a">>, <<"(", "a", "*", ")", "*">>, <<"(">>, <<" ", " ">>},
   searchType : {"text", "regex"}]

ToolCalls == ToolNames \cup {"delete_project"}

InitRouter ==
  /\ impl \in Impls
  /\ \E n \in WarmSizes : cache = WarmCache(impl, n, 1) /\ now = n
  /\ ticks = 0
  /\ pc = [r \in Slots |-> "idle"]
  /\ args = [r \in Slots |-> NoArgs]
  /\ context = [r \in Slots |-> NewContext(0, NoPath, NoHash)]
  /\ result = [r \in Slots |-> <<>>]
  /\ disk = Disk(<<>>)
  /\ file = FileIdle
  /\ search \in {[SearchIdle EXCEPT !.variant = v] : v \in SearchVariants}
  /\ keyed = <<>>
  /\ route = RouteIdle
  /\ twin = TwinIdle
  /\ scan = ScanIdle

\* the ReadResource handler from its call to the first suspension of the
\* handler it calls
ReadResource(req) ==
  /\ route.pc = "idle"
  /\ LET h == HandlerOf(req.text)
         sent == [route EXCEPT !.call = "resource", !.text = req.text,
                               !.handler = h]
     IN IF h = "structure"
        THEN /\ route' = IF req.args.path = NoPath
                         THEN [sent EXCEPT !.result = ProjectPathRequired(impl),
                                           !.pc = "done"]
                         ELSE [sent EXCEPT !.pc = "structure"]
             /\ UNCHANGED <<impl, contextVars, fileVars, searchVars, keyVars>>
        ELSE IF h = "file"
        THEN /\ GetFileResource(req.file)
             /\ route' = [sent EXCEPT !.pc = "handler"]
        ELSE IF h = "context"
        THEN /\ GetContextResource(1, req.args.hash, req.args.path, req.args.task)
             /\ route' = [sent EXCEPT !.pc = "handler"]
             /\ UNCHANGED <<fileVars, searchVars, keyVars>>
        ELSE /\ route' = [sent EXCEPT !.result = UnknownResource, !.pc = "done"]
             /\ UNCHANGED <<impl, contextVars, fileVars, searchVars, keyVars>>
  /\ UNCHANGED <<twinVars, scanVars>>

\* getProjectResource resumes after `await getProjectStructure(...)`
ProjectStructureSettles(env) ==
  /\ route.pc = "structure"
  /\ route' = [route EXCEPT
                 !.result = IF env = "ok" THEN Contents(Tree(1))
                            ELSE ProjectResourceError(impl),
                 !.pc = "done"]
  /\ UNCHANGED <<impl, contextVars, fileVars, searchVars, keyVars>>
  /\ UNCHANGED <<twinVars, scanVars>>

\* `return await getFileResource(uri)` / `return await getContextResource(uri)`
\* resumes: what the handler resolved or rejected with goes to the caller
ReadResourceReturns ==
  /\ route.pc = "handler"
  /\ \/ /\ route.handler = "file"
        /\ file.pc = "done"
        /\ route' = [route EXCEPT !.result = file.result, !.pc = "done"]
     \/ /\ route.handler = "context"
        /\ pc[1] = "done"
        /\ route' = [route EXCEPT !.result = result[1], !.pc = "done"]
  /\ UNCHANGED <<impl, contextVars, fileVars, searchVars, keyVars>>
  /\ UNCHANGED <<twinVars, scanVars>>

\* the CallTool handler from its call to the first suspension of the tool
CallTool(name, a) ==
  /\ route.pc = "idle"
  /\ LET sent == [route EXCEPT !.call = "tool", !.tool = name]
     IN IF name \notin ToolNames
        THEN /\ route' = [sent EXCEPT !.result = UnknownTool, !.pc = "done"]
             /\ UNCHANGED <<impl, contextVars, fileVars, searchVars, keyVars>>
        ELSE IF name = "search_codebase"
        THEN /\ SearchCodebase(a)
             /\ route' = [sent EXCEPT !.pc = "tool"]
        ELSE /\ route' = [sent EXCEPT !.pc = "tool"]
             /\ UNCHANGED <<impl, contextVars, fileVars, searchVars, keyVars>>
  /\ UNCHANGED <<twinVars, scanVars>>

\* a tool other than search_codebase settles and the handler returns: the
\* envelope, or the error of the tool wrapped by the catch block
ToolSettles(env) ==
  /\ route.pc = "tool"
  /\ route.tool # "search_codebase"
  /\ route' = [route EXCEPT
                 !.result =
                    IF env = "ok" THEN ToolContent(route.tool)
                    ELSE Wrapped(<<"error", ToolPrefix[route.tool], "ENOENT">>),
                 !.pc = "done"]
  /\ UNCHANGED <<impl, contextVars, fileVars, searchVars, keyVars>>
  /\ UNCHANGED <<twinVars, scanVars>>

\* `return await searchCodebase(args)` resumes
CallToolReturns ==
  /\ route.pc = "tool"
  /\ route.tool = "search_codebase"
  /\ search.pc = "done"
  /\ route' = [route EXCEPT !.result = Wrapped(search.result), !.pc = "done"]
  /\ UNCHANGED <<impl, contextVars, fileVars, searchVars, keyVars>>
  /\ UNCHANGED <<twinVars, scanVars>>

\* one top-level request, with everything the handlers await
NextRouter ==
  \/ \E req \in ResourceReads(impl) : ReadResource(req)
  \/ \E env \in StructureEnv : ProjectStructureSettles(env)
  \/ ReadResourceReturns
  \/ \E name \in ToolCalls, a \in RouterSearchArgs : CallTool(name, a)
  \/ \E env \in {"ok", "fail"} : ToolSettles(env)
  \/ CallToolReturns
  \/ RealpathSettles /\ UNCHANGED <<routeVars, twinVars, scanVars>>
  \/ StatSettles /\ UNCHANGED <<routeVars, twinVars, scanVars>>
  \/ \E outcome \in ReadOutcomes :
       ReadSettles(outcome) /\ UNCHANGED <<routeVars, twinVars, scanVars>>
  \/ \E env \in StructureEnv : StructureSettles(1, env) /\ UNCHANGED nonContextVars
  \/ \E env \in GitEnv : GitSettles(1, env) /\ UNCHANGED nonContextVars
  \/ \E env \in FilesEnv : FilesSettles(1, env) /\ UNCHANGED nonContextVars
  \/ ContextReturns(1) /\ UNCHANGED nonContextVars
  \/ \E files \in FileLists :
       GlobSettles(files) /\ UNCHANGED <<routeVars, twinVars, scanVars>>
  \/ SearchInFile /\ UNCHANGED <<routeVars, twinVars, scanVars>>
  \/ SearchReturns /\ UNCHANGED <<routeVars, twinVars, scanVars>>

SpecRouter == InitRouter /\ [][NextRouter]_vars

\* ------------------------------------------------- the two clean-ups, twinned
\* One sequence of puts is applied to a map cleaned up in place (tools) and to
\* a map cleaned up by rebuilding (resources).
\* puts and clock steps of a behaviour
MaxTwinPuts == 3
MaxTwinTicks == 1

\* the map after CacheCapacity puts of the keys 1 .. CacheCapacity, none of
\* which ran a clean-up: the first `old` keys put at time 0, the others at
\* time 1
TwinStart(old) ==
  [i \in 1 .. CacheCapacity |->
     [key |-> i, timestamp |-> IF i <= old THEN 0 ELSE 1, data |-> 0, obj |-> 0]]

TwinOld == {0, 1, 2}

\* keys put again and keys put for the first time
TwinKeys == {1, 2, CacheCapacity} \cup (CacheCapacity + 1 .. CacheCapacity + 2)

InitTwin ==
  /\ impl = "tools"
  /\ ContextIdle
  /\ disk = Disk(<<>>)
  /\ file = FileIdle
  /\ search = SearchIdle
  /\ keyed = <<>>
  /\ route = RouteIdle
  /\ twin \in {[TwinIdle EXCEPT !.tools = TwinStart(old),
                                !.resources = TwinStart(old),
                                !.now = 1] : old \in TwinOld}
  /\ scan = ScanIdle

\* contextCache.set(k, ...) and the clean-up, in either implementation
TwinPut(k) ==
  /\ twin.puts < MaxTwinPuts
  /\ twin' = [twin EXCEPT
                !.tools = Put("tools", twin.tools, k, twin.now, 0, 0),
                !.resources = Put("resources", twin.resources, k, twin.now, 0, 0),
                !.puts = @ + 1]
  /\ UNCHANGED <<impl, contextVars, fileVars, searchVars, keyVars, routeVars, scanVars>>

\* a millisecond passes
TwinTick ==
  /\ twin.ticks < MaxTwinTicks
  /\ twin' = [twin EXCEPT !.now = @ + 1, !.ticks = @ + 1]
  /\ UNCHANGED <<impl, contextVars, fileVars, searchVars, keyVars, routeVars, scanVars>>

NextTwin ==
  \/ \E k \in TwinKeys : TwinPut(k)
  \/ TwinTick

SpecTwin == InitTwin /\ [][NextTwin]_vars

\* ------------------------------------------------- search: the matching loop
\* `while ((match = regex.exec(line)) !== null)` for a regex with the g flag.
\* The queries are a character, alone or under one quantifier; a line is a
\* sequence of characters; indices count from 0 as in JavaScript.
\* longest line
MaxLineLen == 2
\* matches pushed to `results` before the model stops counting
MaxMatches == 4

LineChars == {"a", "b"}
Lines == UNION {[1 .. n -> LineChars] : n \in 0 .. MaxLineLen}
ScanQueries == {<<"a">>, <<"a", "+">>, <<"a", "*">>, <<"a", "?">>}

\* how many times the character c stands in line from index i on, unbroken
RECURSIVE RunLength(_, _, _)
RunLength(line, i, c) ==
  IF i < Len(line) /\ line[i + 1] = c THEN 1 + RunLength(line, i + 1, c) ELSE 0

NoMatch == [found |-> FALSE, index |-> 0, length |-> 0]

\* the leftmost match of query in line at or after index from, the longest at
\* that index (quantifiers are greedy)
LeftmostMatch(query, line, from) ==
  LET c == query[1]
      q == IF Len(query) = 2 THEN query[2] ELSE "1"
      LongestAt(i) ==
        IF q = "*" THEN RunLength(line, i, c)
        ELSE IF q = "+" THEN RunLength(line, i, c)
        ELSE IF RunLength(line, i, c) > 0 THEN 1 ELSE 0
      MatchesAt(i) == q \in {"*", "?"} \/ RunLength(line, i, c) > 0
      starts == {i \in from .. Len(line) : MatchesAt(i)}
  IN IF starts = {} THEN NoMatch
     ELSE LET i == CHOOSE i \in starts : \A j \in starts : i <= j
          IN [found |-> TRUE, index |-> i, length |-> LongestAt(i)]

\* RegExp.prototype.exec with the g flag: lastIndex becomes the index just
\* behind the match, which for an empty match is the index of the match
LastIndexAfter(m) == m.index + m.length

InitScan ==
  /\ impl = "tools"
  /\ ContextIdle
  /\ disk = Disk(<<>>)
  /\ file = FileIdle
  /\ search = SearchIdle
  /\ keyed = <<>>
  /\ route = RouteIdle
  /\ twin = TwinIdle
  /\ scan \in {[ScanIdle EXCEPT !.variant = v] : v \in SearchVariants}

\* searchInFile reaches the loop over a line with a query it compiled; the
\* guarded variant has let the query through isRegexSafe and sets
\* regex.lastIndex = 0
EnterLine(query, line) ==
  /\ scan.pc = "idle"
  /\ Compiles(query)
  /\ scan.variant = "guarded" => isRegexSafe(query)
  /\ scan' = [scan EXCEPT !.pc = "loop", !.query = query, !.line = line,
                          !.lastIndex = IF scan.variant = "guarded" THEN 0 ELSE @]
  /\ UNCHANGED <<impl, contextVars, fileVars, searchVars, keyVars, routeVars, twinVars>>

\* one evaluation of the loop condition, with the body when there is a match
ExecLine ==
  /\ scan.pc = "loop"
  /\ scan.matches < MaxMatches
  /\ LET m == LeftmostMatch(scan.query, scan.line, scan.lastIndex)
     IN scan' = IF m.found
                THEN [scan EXCEPT !.lastIndex = LastIndexAfter(m),
                                  !.matches = @ + 1]
                ELSE [scan EXCEPT !.lastIndex = 0, !.pc = "done"]
  /\ UNCHANGED <<impl, contextVars, fileVars, searchVars, keyVars, routeVars, twinVars>>

NextScan ==
  \/ \E query \in ScanQueries, line \in Lines : EnterLine(query, line)
  \/ ExecLine

SpecScan == InitScan /\ [][NextScan]_vars

\* ------------------------------------------------------ vocabulary of claims
WarmKey(i) == generateContextHash(impl, WarmPath(i), NoTask)

\* request r takes its first step (getContextResource is called)
Starts(r) == pc[r] = "idle" /\ pc'[r] # "idle"

\* request r leaves its last provider: contextCache.set and the clean-up run
Stores(r) == pc[r] \in {"git", "files"} /\ pc'[r] = "returned"

\* request r went through the pipeline and holds the payload it built
Built(r) ==
  /\ pc[r] \in {"returned", "done"}
  /\ context[r].hash # NoHash
  /\ ~context[r].cached

\* the key getOrCreateContext computes for the arguments of request r
ComputedKey(r) == generateContextHash(impl, args[r].path, args[r].task)

Stamps(c) == {c[i].timestamp : i \in 1 .. Len(c)}

\* ------------------------------------------------------------------------ C1
\* C1: between any two synchronous steps of any interleaving of context
\* requests the cache holds at most 50 entries.
C1_SizeWithinCapacity == Len(cache) <= CacheCapacity

\* a request stored a new key into a full cache and an older entry is gone
C1_Witness ==
  /\ Len(cache) = CacheCapacity
  /\ \E r \in Slots :
       /\ Built(r)
       /\ context[r].hash \in Keys(cache)
       /\ \E i \in 1 .. CacheCapacity : WarmKey(i) \notin Keys(cache)

\* ------------------------------------------------------------------------ C2
\* C2: a put of a 51st distinct key into a cache of 50 entries evicts exactly
\* one entry, no entry is older than the evicted one, and 50 entries remain.
C2_EvictsOneOldest ==
  [][\A r \in Slots :
       (Stores(r) /\ Len(cache) = CacheCapacity
          /\ context'[r].hash \notin Keys(cache))
       => LET k == context'[r].hash
              gone == (Keys(cache) \cup {k}) \ Keys(cache')
              StampOf(g) == IF g = k THEN now
                            ELSE cache[MapIndex(cache, g)].timestamp
          IN /\ Len(cache') = CacheCapacity
             /\ Cardinality(gone) = 1
             /\ \A g \in gone :
                  \A t \in Stamps(cache) \cup {now} : StampOf(g) <= t]_vars

\* the entries were stored one per millisecond; a new key was stored, it
\* stayed, and of the earlier entries exactly the first one is gone
C2_Witness ==
  /\ Len(cache) = CacheCapacity
  /\ cache[1].timestamp = 2
  /\ WarmKey(1) \notin Keys(cache)
  /\ \A i \in 2 .. CacheCapacity : WarmKey(i) \in Keys(cache)
  /\ \E r \in Slots : Built(r) /\ context[r].hash \in Keys(cache)

\* ------------------------------------------------------------------------ C3
\* C3: a lookup, by computed key or by supplied hash, serves a stored entry
\* only if the entry is present and younger than CACHE_TTL; an entry aged
\* CACHE_TTL or more is a miss.
ServedByKey(r) == Starts(r) /\ pc'[r] = "returned"
ServedByHash(r) == Starts(r) /\ pc'[r] = "done" /\ result'[r][1] = "contents"

C3_ServesOnlyFresh ==
  [][\A r \in Slots :
       /\ ServedByKey(r) =>
            \E i \in 1 .. Len(cache) :
               /\ cache[i].key = context'[r].hash
               /\ cache[i].key = generateContextHash(impl, args'[r].path, args'[r].task)
               /\ now - cache[i].timestamp < CACHE_TTL
       /\ ServedByHash(r) =>
            \E i \in 1 .. Len(cache) :
               /\ cache[i].key = args'[r].hash
               /\ now - cache[i].timestamp < CACHE_TTL
       /\ (Starts(r) /\ args'[r].path # NoPath
             /\ \A i \in 1 .. Len(cache) :
                   now - cache[i].timestamp >= CACHE_TTL)
          => pc'[r] = "structure"]_vars

\* a request whose supplied hash and computed key both name an entry aged
\* exactly CACHE_TTL runs the pipeline
C3_Witness ==
  \E r \in Slots :
     /\ pc[r] = "structure"
     /\ args[r].hash = context[r].hash
     /\ \E i \in 1 .. Len(cache) :
          /\ cache[i].key = args[r].hash
          /\ context[r].generated - cache[i].timestamp = CACHE_TTL

\* ------------------------------------------------------------------------ C4
\* C4 as stated: a hit returns exactly the payload that was stored.
C4_HitReturnsStoredPayload ==
  [][\A r \in Slots :
       ServedByKey(r) =>
         context'[r] = cache[MapIndex(cache, context'[r].hash)].data]_vars

\* C4 as amended: a hit within CACHE_TTL returns the stored payload with the
\* field cached set to true and nothing else changed, runs no provider and
\* leaves the cache alone; an entry aged CACHE_TTL or more is a miss that
\* runs the pipeline, and the put that ends it gives the key the time of the
\* put, later than the timestamp of the expired entry it replaces.
C4_HitReturnsStoredPlusFlag ==
  [][\A r \in Slots :
       /\ ServedByKey(r) =>
            LET e == cache[MapIndex(cache, ComputedKey(r)')]
            IN /\ now - e.timestamp < CACHE_TTL
               /\ context'[r] = [e.data EXCEPT !.cached = TRUE]
               /\ cache' = cache
       /\ ServedByHash(r) =>
            LET e == cache[MapIndex(cache, args'[r].hash)]
            IN /\ result'[r] = Contents([e.data EXCEPT !.cached = TRUE])
               /\ cache' = cache
       /\ (Starts(r) /\ args'[r].path # NoPath
             /\ ~ServedByHash(r)
             /\ MapIndex(cache, ComputedKey(r)') # 0
             /\ now - cache[MapIndex(cache, ComputedKey(r)')].timestamp >= CACHE_TTL)
          => pc'[r] = "structure" /\ context'[r].generated = now
       /\ (Stores(r) /\ MapIndex(cache, ComputedKey(r)) # 0) =>
            LET old == cache[MapIndex(cache, ComputedKey(r))]
                new == cache'[MapIndex(cache', ComputedKey(r))]
            IN /\ MapIndex(cache', ComputedKey(r)) # 0
               /\ new.timestamp = now
               /\ new.data = context'[r]
               /\ now - old.timestamp >= CACHE_TTL
                    => new.timestamp > old.timestamp]_vars

\* a request missed on an entry aged CACHE_TTL and its put replaced the entry
C4_Witness ==
  \E r \in Slots :
     /\ Built(r)
     /\ args[r].path = WarmPath(1)
     /\ \E i \in 1 .. Len(cache) :
          /\ cache[i].key = context[r].hash
          /\ cache[i].obj = r
          /\ cache[i].timestamp = CACHE_TTL
     /\ \E q \in Slots :
          /\ pc[q] = "done"
          /\ args[q].path = WarmPath(1)
          /\ result[q][1] = "contents"
          /\ result[q][2].cached

\* ------------------------------------------------------------------------ C5
\* C5: a hit changes neither the timestamp of the entry nor anything else in
\* the cache; when a put pushes the size over the capacity, an entry that is
\* strictly the oldest is the one discarded, however often it was read.
C5_EvictionIgnoresReads ==
  [][\A r \in Slots :
       /\ Starts(r) => cache' = cache
       /\ (Stores(r) /\ Len(cache) = CacheCapacity
             /\ context'[r].hash \notin Keys(cache))
          => \A i \in 1 .. Len(cache) :
               (/\ cache[i].timestamp < now
                /\ \A j \in 1 .. Len(cache) :
                     j # i => cache[i].timestamp < cache[j].timestamp)
               => cache[i].key \notin Keys(cache')]_vars

\* one request was served the oldest entry from the cache, and the put of
\* another request has discarded that entry
C5_Witness ==
  \E r, q \in Slots :
     /\ pc[r] = "done"
     /\ result[r][1] = "contents"
     /\ result[r][2].cached
     /\ result[r][2].hash = WarmKey(1)
     /\ WarmKey(1) \notin Keys(cache)
     /\ Built(q)
     /\ context[q].hash \in Keys(cache)
     /\ Len(cache) = CacheCapacity

\* ------------------------------------------------------------------------ C6
\* C6: from the put of an entry until its key is overwritten by another put
\* or evicted, the payload the cache holds for the key does not change.
C6_StoredPayloadImmutable ==
  [][\A i \in 1 .. Len(cache) : \A j \in 1 .. Len(cache') :
       (/\ cache[i].key = cache'[j].key
        /\ cache[i].obj = cache'[j].obj
        /\ cache[i].timestamp = cache'[j].timestamp)
       => cache'[j].data = cache[i].data]_vars

\* ------------------------------------------------------------------------ C7
OneOf(a, b) == (a = Absent) # (b = Absent)

\* C7: with a project path given, whatever way each provider settles, the
\* request calls the provider that is due next, never ends in an error, ends
\* with a payload that records the structure or its failure, the git field,
\* and with a task the files or their failure, and the payload is put into
\* the cache (where only the clean-up of that put can discard it again).
C7_NeverFailsFast ==
  /\ [](\A r \in Slots :
          /\ (pc[r] = "done" /\ args[r].path # NoPath) => result[r][1] = "contents"
          /\ Built(r) =>
               /\ OneOf(context[r].structure, context[r].structureError)
               /\ context[r].git # Absent
               /\ args[r].task # NoTask =>
                    OneOf(context[r].relevantFiles, context[r].filesError))
  /\ [][\A r \in Slots :
          /\ (pc[r] = "structure" /\ pc'[r] # "structure") => pc'[r] = "git"
          /\ (pc[r] = "git" /\ pc'[r] # "git") =>
               pc'[r] = IF args[r].task # NoTask THEN "files" ELSE "returned"
          /\ (pc[r] = "files" /\ pc'[r] # "files") => pc'[r] = "returned"
          /\ Stores(r) =>
               \/ \E i \in 1 .. Len(cache') :
                     /\ cache'[i].key = ComputedKey(r)
                     /\ cache'[i].data = context'[r]
                     /\ cache'[i].timestamp = now
               \/ /\ Len(cache) = CacheCapacity
                  /\ ComputedKey(r) \notin Keys(cache)
                  /\ \A t \in Stamps(cache) : t >= now]_vars

\* all three providers failed; the request ended with a payload, which is in
\* the cache
C7_Witness ==
  \E r \in Slots :
     /\ pc[r] = "done"
     /\ result[r][1] = "contents"
     /\ result[r][2].structureError = StructureFailure
     /\ result[r][2].git = Null
     /\ result[r][2].filesError = FilesFailure
     /\ \E i \in 1 .. Len(cache) : cache[i].data = context[r]

\* ------------------------------------------------------------------------ C8
\* C8: when the path is no git repository or a git command fails, the step
\* sets git to null, changes no other field of the payload, raises no error
\* and goes on as it does after a success; the other fields are those the
\* structure and relevance providers gave.
C8_GitFailureIsNull ==
  /\ [][\A r \in Slots :
          /\ (pc[r] = "git" /\ pc'[r] # "git") =>
               /\ context'[r].git \in {Null, GitInfo(args[r].path)}
               /\ [context'[r] EXCEPT !.git = Absent] = context[r]
               /\ result'[r] = result[r]
          /\ \A env \in {"notrepo", "fail"} :
               GitSettles(r, env) => context'[r].git = Null]_vars
  /\ [](\A r \in Slots :
          (Built(r) /\ context[r].git = Null) =>
             /\ context[r].structure \in {Absent, Tree(args[r].path)}
             /\ OneOf(context[r].structure, context[r].structureError)
             /\ args[r].task # NoTask =>
                  /\ context[r].relevantFiles
                       \in {Absent, Files(args[r].path, args[r].task)}
                  /\ OneOf(context[r].relevantFiles, context[r].filesError)
             /\ pc[r] = "done" => result[r][1] = "contents")

\* git failed for a request with a task: null, with structure and files
C8_Witness ==
  \E r \in Slots :
     /\ pc[r] = "done"
     /\ result[r][1] = "contents"
     /\ result[r][2].git = Null
     /\ result[r][2].structure = Tree(args[r].path)
     /\ result[r][2].relevantFiles = Files(args[r].path, args[r].task)

\* ------------------------------------------------------------------------ C9
RelevanceMatchesTask(d, t) ==
  IF t = NoTask
  THEN d.relevantFiles = Absent /\ d.filesError = Absent
  ELSE OneOf(d.relevantFiles, d.filesError)

\* the relevance provider is the next call after git exactly when a task is given
CallsRelevanceIffTask ==
  [][\A r \in Slots :
       (pc[r] = "git" /\ pc'[r] # "git") =>
          (pc'[r] = "files") = (args[r].task # NoTask)]_vars

\* C9 as stated: the relevance provider is called exactly for a request with a
\* task, and the payload of every context request has neither relevantFiles
\* nor filesError without a task, exactly one of them with a task.
C9_RelevanceIffTask ==
  /\ CallsRelevanceIffTask
  /\ [](\A r \in Slots :
          (pc[r] = "done" /\ result[r][1] = "contents") =>
             RelevanceMatchesTask(result[r][2], args[r].task))

\* C9 as amended: the same, for every request whose payload is the one built
\* for, or cached under, the key computed from its own path and task (a
\* request answered through a supplied hash of another descriptor receives
\* that descriptor's payload).
C9_RelevanceIffTaskOwnKey ==
  /\ CallsRelevanceIffTask
  /\ [](\A r \in Slots :
          (pc[r] = "done" /\ result[r][1] = "contents"
             /\ result[r][2].hash = ComputedKey(r)) =>
             RelevanceMatchesTask(result[r][2], args[r].task))

\* a request with a task whose relevance provider failed
C9_Witness ==
  \E r \in Slots :
     /\ pc[r] = "done"
     /\ args[r].task # NoTask
     /\ result[r][1] = "contents"
     /\ result[r][2].hash = ComputedKey(r)
     /\ result[r][2].relevantFiles = Absent
     /\ result[r][2].filesError = FilesFailure

\* ----------------------------------------------------------------------- C10
\* C10: a request without a project path ends at once with the error
\* "Project path is required", before any provider is called and with the
\* cache as it was; no other context request ends with an error.
C10_MissingPathAborts ==
  /\ [](\A r \in Slots :
          pc[r] = "done" =>
            /\ (result[r][1] = "error") = (args[r].path = NoPath)
            /\ args[r].path = NoPath =>
                 /\ result[r] = PathRequired
                 /\ context[r] = NewContext(0, NoPath, NoHash))
  /\ [][\A r \in Slots :
          (Starts(r) /\ args'[r].path = NoPath) =>
             pc'[r] = "done" /\ cache' = cache]_vars

\* a request without a path is refused although the hash it supplies names a
\* fresh entry
C10_Witness ==
  \E r \in Slots :
     /\ pc[r] = "done"
     /\ result[r] = PathRequired
     /\ args[r].hash # NoHash
     /\ IsFresh(cache, args[r].hash, now)

\* ----------------------------------------------------------------------- C11
\* who holds which place of the Map: key, timestamp and payload object
Holders(c) == [i \in 1 .. Len(c) |-> <<c[i].key, c[i].timestamp, c[i].obj>>]

\* the entries of c stored under key k
EntriesOf(c, k) == {i \in 1 .. Len(c) : c[i].key = k}

\* request r puts while another request that missed on the same key has
\* already put
PutsAfterTwin(r) ==
  /\ Stores(r)
  /\ \E q \in Slots \ {r} : Built(q) /\ context[q].hash = context'[r].hash

\* the put of request r is the one entry under its key, with now as timestamp
LastWriteWins(r) ==
  /\ Cardinality(EntriesOf(cache', context'[r].hash)) = 1
  /\ \A i \in EntriesOf(cache', context'[r].hash) :
       cache'[i].obj = r /\ cache'[i].timestamp = now

\* C11 as stated: two requests for one descriptor both miss and both run the
\* pipeline; once both have put, the cache holds exactly one entry under the
\* key, the one written by the later put, with that put's timestamp.
C11_LastWriteWins ==
  [][\A r \in Slots :
       /\ PutsAfterTwin(r) => LastWriteWins(r)
       /\ ~(\E q \in Slots : Stores(q)) => Holders(cache') = Holders(cache)]_vars

\* the sweep a put triggers discards the put itself when the key is new, the
\* cache is full and no entry is older than the put
SweptAtOnce(c, k, t) ==
  /\ k \notin Keys(c)
  /\ Len(c) >= CacheCapacity
  /\ \A i \in 1 .. Len(c) : c[i].timestamp >= t

\* C11, amended: once both have put, the cache holds at most one entry under
\* the key; it holds exactly one, written by the later put with that put's
\* timestamp, unless the sweep triggered by that put discarded it at once (a
\* full cache without the key and without an entry older than the put). No
\* step other than a put changes the key, timestamp or owner of an entry.
C11_LastWriteWinsUnlessSwept ==
  [][\A r \in Slots :
       /\ PutsAfterTwin(r) =>
            IF SweptAtOnce(cache, context'[r].hash, now)
            THEN EntriesOf(cache', context'[r].hash) = {}
            ELSE LastWriteWins(r)
       /\ ~(\E q \in Slots : Stores(q)) => Holders(cache') = Holders(cache)]_vars

\* both requests were in the pipeline at once, both have returned, and the one
\* entry under their key is the later put's: it carries a timestamp the
\* earlier put cannot have written
C11_Witness ==
  \E r \in Slots, q \in Slots :
     /\ r # q
     /\ pc[r] = "done" /\ pc[q] = "done"
     /\ Built(r) /\ Built(q)
     /\ context[r].hash = context[q].hash
     /\ context[r].generated = context[q].generated
     /\ Cardinality(EntriesOf(cache, context[r].hash)) = 1
     /\ \A i \in EntriesOf(cache, context[r].hash) :
          cache[i].obj = r /\ cache[i].timestamp > context[r].generated

\* ------------------------------------------- vocabulary of the file claims
\* the handler with the containment test takes its decision in this step
Decides ==
  /\ file.pc = "realpath"
  /\ realpath(disk, file.uri.root.path).ok
  /\ realpath(disk, file.filePath).ok

\* the canonical paths the decision is about, as strings
RealRoot == PathString(realpath(disk, file.uri.root.path).path)
RealTarget == PathString(realpath(disk, file.filePath).path)

Allows == file'.pc = "stat"
Denies == file'.pc = "done" /\ file'.result = AccessDenied

\* the request asked for path p under root r
Asked(p, r) == file.uri = [path |-> p, root |-> Root(r)]

\* path p is the directory r or lies below it
Within(r, p) == Len(p) >= Len(r) /\ SubSeq(p, 1, Len(r)) = r

\* ----------------------------------------------------------------------- C12
\* C12 as stated: with a root, the target is allowed iff its resolved path
\* equals the resolved root or begins with the resolved root followed by one
\* path separator.
C12_AllowedIffRootPlusSeparator ==
  [][Decides =>
       /\ Allows \/ Denies
       /\ Allows <=> \/ RealTarget = RealRoot
                     \/ StartsWith(RealTarget, RealRoot \o <<SEP>>)]_vars

\* C12, amended: with a root, the target is allowed iff its resolved path
\* equals the resolved root or begins with the resolved root brought to end in
\* exactly one separator (one is appended unless the resolved root already
\* ends with it, as the filesystem root "/" does).  Under /a/b: /a/bc is
\* denied, /a/b/c is allowed, /a/c is denied, /a/b itself is allowed.
C12_AllowedIffRootEndingInSeparator ==
  /\ [][Decides =>
          /\ Allows \/ Denies
          /\ Allows <=>
               \/ RealTarget = RealRoot
               \/ StartsWith(RealTarget,
                             IF EndsWith(RealRoot, <<SEP>>) THEN RealRoot
                             ELSE RealRoot \o <<SEP>>)]_vars
  /\ [](impl = "tools" /\ file.pc = "done" =>
          /\ Asked(<<nA, nBC>>, <<nA, nB>>) => file.result = AccessDenied
          /\ Asked(<<nA, nC>>, <<nA, nB>>) => file.result = AccessDenied
          /\ Asked(<<nA, nB, nC>>, <<nA, nB>>) => file.result[1] = "contents"
          /\ Asked(<<nA, nB>>, <<nA, nB>>) => file.result = NotAFile)

\* /a/bc was asked for under the root /a/b and refused
C12_Witness ==
  /\ impl = "tools"
  /\ file.pc = "done"
  /\ Asked(<<nA, nBC>>, <<nA, nB>>)
  /\ file.result = AccessDenied

\* ----------------------------------------------------------------------- C13
\* the node a path leads to once every symlink on it is followed
Canonical(p) == stat(disk, p).path

\* the request with a root is decided in this step and both paths lead to a
\* node
DecidesOnNodes ==
  /\ file.pc = "realpath"
  /\ file'.pc # "realpath"
  /\ stat(disk, file.uri.root.path).ok
  /\ stat(disk, file.filePath).ok

\* C13: the containment decision is taken on the canonical paths of root and
\* target, every symlink followed: the target is allowed exactly when the node
\* it leads to is the node of the root or lies below it, and a target written
\* inside the root that a symlink leads out of the root is refused with the
\* access-denied error.
C13_DecidedOnCanonicalPaths ==
  [][DecidesOnNodes =>
       IF Within(Canonical(file.uri.root.path), Canonical(file.filePath))
       THEN Allows
       ELSE Denies]_vars

\* /a/b/l is written inside the root /a/b, the symlink l leads to /a/c, and
\* the request was refused
C13_Witness ==
  /\ file.pc = "done"
  /\ Asked(<<nA, nB, nL>>, <<nA, nB>>)
  /\ Within(file.uri.root.path, file.filePath)
  /\ ~Within(Canonical(file.uri.root.path), Canonical(file.filePath))
  /\ file.result = AccessDenied

\* ----------------------------------------------------------------------- C14
\* the request has ended and returned the text of a node
ReturnsContent == file.pc = "done" /\ file.result[1] = "contents"

\* the node whose text was returned lies in the directory the root leads to
ContentWithinRoot ==
  /\ stat(disk, file.uri.root.path).ok
  /\ Within(Canonical(file.uri.root.path), file.result[2].origin)

\* C14: the containment check is applied on every file-resource read: a
\* request with a root whose target resolves outside the resolved root fails
\* and returns no content, whichever getFileResource handler serves it.
C14_ContainmentOnEveryRead ==
  (ReturnsContent /\ file.uri.root.given) => ContentWithinRoot

\* ----------------------------------------------------------------------- C15
\* C15: content is returned only after containment (with a root) has passed,
\* for a regular file of at most MAX_BYTES, whole; a directory, a special file
\* or a larger file ends the request with an error.
C15_ContentOnlyFromSmallRegularFile ==
  ReturnsContent =>
    /\ file.uri.root.given => ContentWithinRoot
    /\ disk.nodes[file.result[2].origin].kind = "file"
    /\ disk.nodes[file.result[2].origin].size <= MAX_BYTES
    /\ file.result[2].text = disk.nodes[file.result[2].origin].size

\* ----------------------------------------------------------------------- C16
\* the query holds a "(", later a quantifier, later a ")" with a quantifier
\* directly behind it: one of (X+)+, (X*)*, (X+)*, (X*)+ for some content X
NestedQuantifier(pattern) ==
  \E i \in 1 .. Len(pattern) :
     /\ pattern[i] = "("
     /\ \E k \in i + 2 .. Len(pattern) - 1 :
          /\ pattern[k] = ")"
          /\ pattern[k + 1] \in Quantifiers
          /\ \E j \in i + 1 .. k - 1 : pattern[j] \in Quantifiers

\* C16: the gate accepts a pattern iff its length is in 1 .. 200 and it holds
\* none of the four nested-quantifier shapes.
C16_GateAcceptsIffShortAndFlat ==
  search.gate # "uncalled" =>
    (search.gate = "true" <=>
       /\ Len(search.query) \in 1 .. maxLength
       /\ ~NestedQuantifier(search.query))

\* ----------------------------------------------------------------------- C17
\* C17: the query of a regex search is handed to the RegExp constructor and
\* matched against a file only after the gate has returned true for it, in
\* either searchInFile.
C17_CompiledOnlyAfterGate ==
  (search.compiled \/ search.executed) => search.gate = "true"

\* ----------------------------------------------------------------------- C18
\* the gate refuses the query or the RegExp constructor does
BadPattern(query) == ~isRegexSafe(query) \/ ~Compiles(query)

\* C18: a regex search whose pattern fails the gate or is not well formed
\* ends with an error; no result envelope is returned for it.
C18_BadPatternAborts ==
  (search.pc = "done" /\ AsRegex /\ BadPattern(search.query))
    => search.result[1] = "error"

\* ----------------------------------------------------------------------- C19
\* request r carries a hash segment and a path
CarriesHash(r) == args[r].hash # NoHash /\ args[r].path # NoPath

\* request r has ended and what it returned came out of getOrCreateContext
ReturnedFromPipeline(r) ==
  /\ pc[r] = "done"
  /\ result[r][1] = "contents"
  /\ context[r].hash # NoHash

\* C19: a request whose hash names a fresh entry gets the stored payload, no
\* provider runs and the cache stays as it was; a request whose hash names no
\* fresh entry gets the result for the key computed from its path and task,
\* the hash field is that key, and previousHash is the supplied hash when the
\* two differ and is left out when they are equal.
C19_HashShortCircuitsOrIsReported ==
  /\ [][\A r \in Slots :
          (Starts(r) /\ CarriesHash(r)' /\ IsFresh(cache, args'[r].hash, now))
          => /\ pc'[r] = "done"
             /\ cache' = cache
             /\ result'[r] =
                  Contents(HashHitCopy(cache[MapIndex(cache, args'[r].hash)].data))]_vars
  /\ [](\A r \in Slots :
          (CarriesHash(r) /\ ReturnedFromPipeline(r))
          => /\ result[r][2].hash = ComputedKey(r)
             /\ result[r][2].previousHash =
                  IF args[r].hash # ComputedKey(r) THEN args[r].hash ELSE Absent)

\* ----------------------------------------------------------------------- C20
\* C20: the key is a function of path and task as given; the text that is
\* hashed keeps the two fields apart: equal descriptors have equal keys, and
\* two descriptors with the same hashed text have the same path and the same
\* task (a task that is absent and a task that is empty being the same), so
\* (p, "a") and (p, "b") differ and (pathA, taskB) differs from
\* (pathAtaskB, "").
C20_KeySeparatesFields ==
  \A i, j \in 1 .. Len(keyed) :
     /\ (keyed[i].path = keyed[j].path /\ keyed[i].task = keyed[j].task)
          => keyed[i].key = keyed[j].key
     /\ keyed[i].input = keyed[j].input
          => /\ keyed[i].path = keyed[j].path
             /\ OrUndefined(keyed[i].task) = OrUndefined(keyed[j].task)
     /\ keyed[i].key = keyed[j].key <=> keyed[i].input = keyed[j].input

\* the keys of ("a", "a") and of ("aa", "") have been computed and differ
C20_Witness ==
  /\ Len(keyed) = 2
  /\ keyed[1].path = <<"a">> /\ keyed[1].task = TaskText(<<"a">>)
  /\ keyed[2].path = <<"a", "a">> /\ keyed[2].task = TaskText(<<>>)
  /\ keyed[1].input # keyed[2].input
  /\ keyed[1].key # keyed[2].key

\* ----------------------------------------------------------------------- C21
\* an entry of the cache is aged CACHE_TTL or more
Expired(e) == now - e.timestamp >= CACHE_TTL

\* C21: only the put that ends a pipeline run after a miss adds a key, and
\* only the clean-up of a put that brought the size over the capacity removes
\* one; a lookup, hit or miss, leaves the cache as it was; any other step
\* keeps every entry, expired ones included, under its key with its timestamp.
C21_OnlyPutAddsOnlySweepRemoves ==
  [][/\ \A r \in Slots :
          /\ Starts(r) => cache' = cache
          /\ Stores(r) =>
               /\ ~context[r].cached
               /\ Keys(cache') \subseteq Keys(cache) \cup {context'[r].hash}
               /\ Keys(cache) \ Keys(cache') # {} =>
                    /\ Len(cache) = CacheCapacity
                    /\ context'[r].hash \notin Keys(cache)
               /\ \A i \in 1 .. Len(cache) :
                    (cache[i].key # context'[r].hash
                       /\ cache[i].key \in Keys(cache'))
                    => cache'[MapIndex(cache', cache[i].key)].timestamp
                         = cache[i].timestamp
     /\ ~(\E r \in Slots : Stores(r)) => Holders(cache') = Holders(cache)]_vars

\* a request has missed on an expired entry, which is still in the full map
C21_Witness ==
  \E r \in Slots :
     /\ pc[r] = "structure"
     /\ Len(cache) = CacheCapacity
     /\ \E i \in 1 .. Len(cache) :
          /\ cache[i].key = context[r].hash
          /\ Expired(cache[i])

\* ----------------------------------------------------------------------- C22
\* the node the path of the request leads to is a regular file of at most
\* MAX_BYTES
SmallRegularFile(p) ==
  /\ stat(disk, p).ok
  /\ stat(disk, p).kind = "file"
  /\ stat(disk, p).size <= MAX_BYTES

\* C22: a request without a root ends with the content of its target exactly
\* when the target is a regular file of at most MAX_BYTES, wherever it lies;
\* it is never refused for its location.
C22_NoRootOnlyKindAndSize ==
  (file.pc = "done" /\ ~file.uri.root.given /\ file.result # FilePathRequired)
    => /\ file.result # AccessDenied
       /\ file.result[1] = "contents" <=> SmallRegularFile(file.filePath)
       /\ file.result[1] = "contents" =>
            /\ file.result[2].origin = Canonical(file.filePath)
            /\ file.result[2].text = disk.nodes[Canonical(file.filePath)].size

\* ----------------------------------------------------------------------- C23
\* the operation a top-level request ran and the prefix of its errors
OperationPrefix ==
  IF route.call = "tool" THEN ToolPrefix[route.tool]
  ELSE IF route.handler = "structure" THEN "Failed to get project structure: "
  ELSE IF route.handler = "file" THEN "Failed to read file: "
  ELSE "Failed to get context: "

\* the request reached an operation: a tool of the switch, one of the three
\* resource handlers
Dispatched ==
  \/ route.call = "tool" /\ route.tool \in ToolNames
  \/ route.call = "resource" /\ route.handler # "none"

\* the message begins with the prefix, directly or behind the wrapper the
\* CallTool handler puts before every tool error
Prefixed(res, prefix) ==
  /\ Len(res) >= 3
  /\ \/ res[2] = prefix
     \/ res[2] = ToolExecutionFailed /\ res[3] = prefix

\* the request has failed: a regex search whose pattern the gate or the RegExp
\* constructor refuses
PatternFailure ==
  /\ route.call = "tool"
  /\ route.tool = "search_codebase"
  /\ AsRegex
  /\ BadPattern(search.query)

\* C23: a request that reached an operation and failed ends with an error
\* whose message begins with the prefix of that operation; a failure returns
\* no result envelope and no message without the prefix.
C23_FailuresCarryOperationPrefix ==
  (route.pc = "done" /\ Dispatched) =>
     /\ route.result[1] = "error" => Prefixed(route.result, OperationPrefix)
     /\ PatternFailure => route.result[1] = "error"

\* ----------------------------------------------------------------------- C25
\* the ReadResource handler takes the request in this step
Reads == route.pc = "idle" /\ route'.call = "resource"

\* no step of a context request or of a file request was taken
NoContextStep == <<cache, pc, args, context, result>>' = <<cache, pc, args, context, result>>
NoFileStep == file' = file

\* C25: a resource read goes to the structure handler when the URI begins
\* with project://structure, else to the file handler when it begins with
\* project://file/, else to the context handler when it begins with
\* project://context/, and to no other handler beside it; a URI that begins
\* with none of the three is rejected with an InvalidRequest error, no handler
\* is started and the cache stays as it was; from its arrival to its end a
\* structure request leaves the context cache as it was, and what it returns
\* does not come from the cache.
C25_OneHandlerByPrefix ==
  /\ [][Reads =>
          /\ route'.handler =
               IF StartsWith(route'.text, StructurePrefix) THEN "structure"
               ELSE IF StartsWith(route'.text, FilePrefix) THEN "file"
               ELSE IF StartsWith(route'.text, ContextPrefix) THEN "context"
               ELSE "none"
          /\ route'.handler = "structure" => NoContextStep /\ NoFileStep
          /\ route'.handler = "file" =>
               NoContextStep /\ file'.pc # "idle" /\ route'.pc = "handler"
          /\ route'.handler = "context" =>
               NoFileStep /\ pc'[1] # "idle" /\ route'.pc = "handler"
          /\ route'.handler = "none" =>
               /\ NoContextStep /\ NoFileStep
               /\ route'.pc = "done"
               /\ route'.result = UnknownResource]_vars
  /\ [][(route.handler = "structure" \/ route'.handler = "structure")
          => NoContextStep]_vars
  /\ [](route.pc = "done" /\ route.handler = "structure" =>
          route.result \in {Contents(Tree(1)), ProjectResourceError(impl),
                            ProjectPathRequired(impl)})

\* project://file, without the slash, was rejected and the 50 entries of the
\* cache are as they were
C25_Witness ==
  /\ route.pc = "done"
  /\ route.call = "resource"
  /\ route.text = Scheme \o <<"f", "i", "l", "e">>
  /\ route.handler = "none"
  /\ route.result = UnknownResource
  /\ Len(cache) = CacheCapacity
  /\ file.pc = "idle"

\* ----------------------------------------------------------------------- C24
\* the timestamp map c holds under key k
StampOf(c, k) == c[MapIndex(c, k)].timestamp

\* both maps hold the same keys with the same timestamps
SameEntries(a, b) ==
  /\ Keys(a) = Keys(b)
  /\ \A k \in Keys(a) : StampOf(a, k) = StampOf(b, k)

\* C24: the two clean-ups are not the same function of the puts.  A put into
\* two maps that hold the same entries leaves them with the same entries or
\* discards from each an entry with the same timestamp as the one discarded
\* from the other (they differ only in which of the entries tied for oldest
\* goes), both maps always have the same size, and there is a sequence of puts
\* with tied timestamps after which the key sets differ (the witness).
C24_CleanUpsDifferOnlyInTies ==
  /\ [](Len(twin.tools) = Len(twin.resources))
  /\ [][SameEntries(twin.tools, twin.resources) =>
          \/ SameEntries(twin'.tools, twin'.resources)
          \/ /\ Cardinality(Keys(twin'.tools) \ Keys(twin'.resources)) = 1
             /\ Cardinality(Keys(twin'.resources) \ Keys(twin'.tools)) = 1
             /\ \A k \in Keys(twin'.tools) \ Keys(twin'.resources) :
                  \A j \in Keys(twin'.resources) \ Keys(twin'.tools) :
                     StampOf(twin'.tools, k) = StampOf(twin'.resources, j)]_vars

\* after the same three puts the map cleaned up in place has lost a key the
\* rebuilt map still holds, and the other way round
C24_Witness ==
  /\ twin.puts = MaxTwinPuts
  /\ Keys(twin.tools) \ Keys(twin.resources) # {}
  /\ Keys(twin.resources) \ Keys(twin.tools) # {}

\* ----------------------------------------------------------------------- C26
\* C26 as stated: when getOrCreateContext has stored after a miss, the cache
\* holds an entry under the key it computed, whatever the cache held before.
C26_OwnInsertionSurvives ==
  [][\A r \in Slots : Stores(r) => ComputedKey(r) \in Keys(cache')]_vars

\* C26, amended: when getOrCreateContext has stored after a miss, the cache
\* holds the new payload under the computed key with the time of the put,
\* unless the key was new, the cache held 50 entries and none of them was
\* older than the put: then the clean-up discards the new entry itself and
\* the cache holds what it held before.
C26_OwnInsertionSurvivesUnlessTied ==
  [][\A r \in Slots :
       Stores(r) =>
         IF SweptAtOnce(cache, ComputedKey(r), now)
         THEN /\ ComputedKey(r) \notin Keys(cache')
              /\ Holders(cache') = Holders(cache)
         ELSE /\ ComputedKey(r) \in Keys(cache')
              /\ cache'[MapIndex(cache', ComputedKey(r))].timestamp = now
              /\ cache'[MapIndex(cache', ComputedKey(r))].data = context'[r]]_vars

\* a new key was put into a full cache in the millisecond of the latest entry
\* and stayed: an older entry went
C26_Witness ==
  \E r \in Slots :
     /\ Built(r)
     /\ Len(cache) = CacheCapacity
     /\ \E i, j \in 1 .. Len(cache) :
          /\ i # j
          /\ cache[i].obj = r
          /\ cache[i].key = context[r].hash
          /\ cache[j].obj # r
          /\ cache[j].timestamp = cache[i].timestamp
     /\ \E i \in 1 .. CacheCapacity : WarmKey(i) \notin Keys(cache)

\* ----------------------------------------------------------------------- C27
\* C27: for a query that passed the gate, every iteration of the matching
\* loop either ends the loop or moves lastIndex forward, also when the match
\* is empty, so the loop pushes at most one match per index of the line and
\* ends.
C27_LoopMakesProgress ==
  /\ [][(scan.pc = "loop" /\ scan' # scan /\ isRegexSafe(scan.query))
          => \/ scan'.pc = "done"
             \/ scan'.lastIndex > scan.lastIndex]_vars
  /\ []((scan.pc # "idle" /\ isRegexSafe(scan.query))
          => scan.matches <= Len(scan.line) + 1)

\* ----------------------------------------------------------------------- C28
\* request r has ended with a payload
ReturnedPayload(r) == pc[r] = "done" /\ result[r][1] = "contents"

\* C28 as stated: the payload a context request returns carries the project
\* path the request supplied.
C28_PayloadOfOwnPath ==
  \A r \in Slots :
     ReturnedPayload(r) => result[r][2].projectPath = args[r].path

\* C28, amended: the payload a context request returns was computed for its
\* own path and task (it carries the supplied project path, the key computed
\* from path and task, and structure, git and relevant files of that path and
\* task), unless the request carried a hash other than its own key that was
\* present and fresh in the cache: then it is the payload stored under that
\* hash, whatever path and task the request supplied.
C28_PayloadOfOwnPathUnlessHashHit ==
  \A r \in Slots :
     ReturnedPayload(r) =>
       IF result[r][2].hash = ComputedKey(r)
       THEN /\ result[r][2].projectPath = args[r].path
            /\ result[r][2].structure \in {Absent, Tree(args[r].path)}
            /\ result[r][2].git \in {Null, GitInfo(args[r].path)}
            /\ result[r][2].relevantFiles
                 \in {Absent, Files(args[r].path, args[r].task)}
       ELSE /\ LooksUpHash(impl, args[r].hash)
            /\ result[r][2].hash = args[r].hash
            /\ result[r][2].cached

\* a request that carried its own key as hash, fresh in the cache, got the
\* cached payload of its own path
C28_Witness ==
  \E r \in Slots :
     /\ ReturnedPayload(r)
     /\ args[r].hash = ComputedKey(r)
     /\ context[r].hash = NoHash
     /\ result[r][2].cached
     /\ result[r][2].projectPath = args[r].path

\* ----------------------------------------------------------------------- C29
\* C29: in a read with a root, served by the handler that checks containment,
\* the text returned is that of the object that passed the check: whatever
\* another process does to a symlink on the target path between the realpath
\* check and the later stat and readFile, no text of a node outside the
\* resolved root is returned.
C29_ReadsWhatPassedTheCheck ==
  (impl = "tools" /\ ReturnsContent /\ file.uri.root.given)
     => ContentWithinRoot

\* ----------------------------------------------------------------------- C30
\* payload d, stored under key k, is that of a pipeline run that has settled:
\* the structure or its failure is recorded, the git field is set, and the
\* relevant files or their failure are recorded exactly when the key is that
\* of a request with a task
Settled(d, k) ==
  \E t \in TaskInputs :
     /\ k = generateContextHash(impl, d.projectPath, t)
     /\ OneOf(d.structure, d.structureError)
     /\ d.git \in {Null, GitInfo(d.projectPath)}
     /\ IF t = NoTask
        THEN d.relevantFiles = Absent /\ d.filesError = Absent
        ELSE OneOf(d.relevantFiles, d.filesError)

\* request r is suspended in a provider call
MidPipeline(r) == pc[r] \in {"structure", "git", "files"}

\* C30: under every interleaving of concurrent context requests, every entry
\* in the cache holds the payload of a pipeline run that had settled (each
\* provider due had succeeded or recorded its failure) before it was stored,
\* and a request served from the cache, by key or by supplied hash, receives
\* such a payload, never a partially populated one.
C30_OnlySettledPayloadsInCache ==
  /\ \A i \in 1 .. Len(cache) : Settled(cache[i].data, cache[i].key)
  /\ \A r \in Slots :
        (pc[r] \in {"returned", "done"} /\ context[r].cached)
           => Settled(context[r], context[r].hash)
  /\ \A r \in Slots :
        (ReturnedPayload(r) /\ result[r][2].cached)
           => Settled(result[r][2], result[r][2].hash)

\* while request r, its own payload still partial, awaits a provider, request
\* q for the same key was served from the cache and holds a settled payload
\* in which a provider's failure is recorded
C30_Witness ==
  \E r, q \in Slots :
     /\ r # q
     /\ MidPipeline(r)
     /\ ~Settled(context[r], context[r].hash)
     /\ ComputedKey(q) = ComputedKey(r)
     /\ pc[q] \in {"returned", "done"}
     /\ context[q].cached
     /\ context[q].structureError # Absent

=============================================================================
